---- MODULE Spec2Model ----
(***************************************************************************)
(* Model of the eumos instruction codec (src/eumos): the field codec, the  *)
(* immediate semantics, the decoder's lookup table, encode_instruction,    *)
(* InstructionInstance.to_opc / to_asm and Decoder.from_asm.               *)
(*                                                                         *)
(* A 32-bit word is the set of its set bit positions (TLC integers are     *)
(* 32-bit signed, a word is not); field values and immediates are          *)
(* integers.  An assembly text is its mnemonic, its shape (bare, comma     *)
(* list, offset(base)) and its operand tokens as character sequences.      *)
(***************************************************************************)
EXTENDS Integers, Sequences, FiniteSets, TLC

(***************************************************************************)
(* Bounds of the explored inputs.                                          *)
(***************************************************************************)
\* immediates explored are the range limits of each format +/- ImmSpread
ImmSpread == 2
\* register indices explored beyond 0..31: -RegOver..-1 and 32..31+RegOver
RegOver == 1

\* how many times the caller feeds a returned word or text back to the decoder
MaxRoundTrips == 1

\* how many RegisterContext.set calls the caller makes on one context
MaxSets == 2
\* how many threads use the GPR definition table at the same time
MaxThreads == 2

(***************************************************************************)
(* Values.                                                                 *)
(***************************************************************************)
\* a Python object that is not an int: the str "x1" of test_encoder.py:204
StrX1 == 1000000001
\* the choice "key not in operand_values" when a map is drawn
Absent == 1000000002

NoInstance == [instruction |-> "", operand_values |-> <<>>]

\* no assembly text; a text is its mnemonic token, the shape of its operand
\* list ("bare", "list", "offset_base") and its operand tokens
NoText == [mnemonic |-> "", shape |-> "", toks |-> <<>>]

IsInt(v) == v # StrX1

(***************************************************************************)
(* Bit arithmetic on words (sets of bit positions) and on integers.        *)
(***************************************************************************)
Abs(n) == IF n < 0 THEN -n ELSE n

Min(a, b) == IF a < b THEN a ELSE b

\* Python's  v & ((1 << width) - 1)  for any integer v
AndMask(v, width) == v % (2 ^ width)

\* Python's  v >> n  (floor, also for negative v)
Shr(v, n) == v \div (2 ^ n)

\* bit i of the integer v in two's complement
BitOf(v, i) == Shr(v, i) % 2

\* the word  (v & mask(width)) << lsb
Place(v, width, lsb) == {lsb + i : i \in {j \in 0 .. (width - 1) : BitOf(v, j) = 1}}

RECURSIVE SumPow(_)
SumPow(S) ==
    IF S = {} THEN 0
    ELSE LET x == CHOOSE y \in S : TRUE IN (2 ^ x) + SumPow(S \ {x})

\* the word with the given 16-bit halves
Word(hi, lo) == Place(lo, 16, 0) \cup Place(hi, 16, 16)

WordMask32(word) == word \cap (0 .. 31)

\* decoder.py _extract_bits: (word >> lsb) & ((1 << width) - 1)
extract_bits(word, msb, lsb) ==
    LET width == Abs(msb - lsb) + 1
    IN SumPow({i \in 0 .. (width - 1) : (lsb + i) \in word})

\* decoder.py _sign_extend
sign_extend(value, width) ==
    LET sign_bit == 2 ^ (width - 1)
    IN IF (value \div sign_bit) % 2 = 1 THEN value - (2 ^ width) ELSE value

\* an insertion that ORs the value in without clearing the window
insert_bits_or(word, value, msb, lsb) ==
    word \cup Place(value, Abs(msb - lsb) + 1, lsb)

\* encoder.py _insert_bits: (word & ~(mask << lsb)) | ((value & mask) << lsb)
insert_bits(word, value, msb, lsb) ==
    LET width == Abs(msb - lsb) + 1
    IN (word \ {lsb + i : i \in 0 .. (width - 1)}) \cup Place(value, width, lsb)

(***************************************************************************)
(* The definition catalog: formats and instructions.                       *)
(***************************************************************************)
NoBits == <<>>

NoParts == <<>>

Contig(n, t, msb, lsb) == [name |-> n, type |-> t, bits |-> <<msb, lsb>>, parts |-> NoParts]

Part(msb, lsb, omsb, olsb) == [bits |-> <<msb, lsb>>, operand_bits |-> <<omsb, olsb>>]

Split(n, t, ps) == [name |-> n, type |-> t, bits |-> NoBits, parts |-> ps]

Template(n, ops, ob) == [name |-> n, operands |-> ops, offset_base |-> ob]

FmtR ==
    [name |-> "R",
     fields |-> << Contig("opcode", "opcode", 6, 0), Contig("rd", "register", 11, 7),
                   Contig("funct3", "funct", 14, 12), Contig("rs1", "register", 19, 15),
                   Contig("rs2", "register", 24, 20), Contig("funct7", "funct", 31, 25) >>,
     asm_formats |-> << Template("standard", <<"rd", "rs1", "rs2">>, FALSE),
                        Template("rd_rs1", <<"rd", "rs1">>, FALSE) >>]

FmtI ==
    [name |-> "I",
     fields |-> << Contig("opcode", "opcode", 6, 0), Contig("rd", "register", 11, 7),
                   Contig("funct3", "funct", 14, 12), Contig("rs1", "register", 19, 15),
                   Contig("imm", "immediate", 31, 20) >>,
     asm_formats |-> << Template("standard", <<"rd", "rs1", "imm">>, FALSE),
                        Template("offset_base", <<"rd", "imm", "rs1">>, TRUE),
                        Template("csr", <<"rd", "imm", "rs1">>, FALSE),
                        Template("none", <<>>, FALSE) >>]

FmtS ==
    [name |-> "S",
     fields |-> << Contig("opcode", "opcode", 6, 0),
                   Split("imm", "immediate", << Part(31, 25, 11, 5), Part(11, 7, 4, 0) >>),
                   Contig("funct3", "funct", 14, 12), Contig("rs1", "register", 19, 15),
                   Contig("rs2", "register", 24, 20) >>,
     asm_formats |-> << Template("offset_base", <<"rs2", "imm", "rs1">>, TRUE) >>]

FmtB ==
    [name |-> "B",
     fields |-> << Contig("opcode", "opcode", 6, 0),
                   Split("imm", "immediate",
                         << Part(31, 31, 12, 12), Part(30, 25, 10, 5),
                            Part(11, 8, 4, 1), Part(7, 7, 11, 11) >>),
                   Contig("funct3", "funct", 14, 12), Contig("rs1", "register", 19, 15),
                   Contig("rs2", "register", 24, 20) >>,
     asm_formats |-> << Template("standard", <<"rs1", "rs2", "imm">>, FALSE) >>]

FmtU ==
    [name |-> "U",
     fields |-> << Contig("opcode", "opcode", 6, 0), Contig("rd", "register", 11, 7),
                   Contig("imm", "immediate", 31, 12) >>,
     asm_formats |-> << Template("standard", <<"rd", "imm">>, FALSE) >>]

FmtJ ==
    [name |-> "J",
     fields |-> << Contig("opcode", "opcode", 6, 0), Contig("rd", "register", 11, 7),
                   Split("imm", "immediate",
                         << Part(31, 31, 20, 20), Part(30, 21, 10, 1),
                            Part(20, 20, 11, 11), Part(19, 12, 19, 12) >>) >>,
     asm_formats |-> << Template("standard", <<"rd", "imm">>, FALSE) >>]

Instr(m, f, fv, ext, af) ==
    [mnemonic |-> m, format |-> f, fixed_values |-> fv, extension |-> ext, asm_format |-> af]

Mnemonics ==
    {"addi", "slli", "srli", "srai", "slliw", "srliw", "sraiw", "ld", "csrrw", "ecall", "ebreak", "mret", "sll", "add",
     "fcvt.w.s", "fadd.s", "flw", "sd", "beq", "lui", "jal"}

Catalog ==
    [m \in Mnemonics |->
        CASE m = "addi" -> Instr(m, FmtI, [opcode |-> 19, funct3 |-> 0], "I", "standard")
          [] m = "slli" -> Instr(m, FmtI, [opcode |-> 19, funct3 |-> 1], "I", "standard")
          [] m = "srai" -> Instr(m, FmtI, [opcode |-> 19, funct3 |-> 5], "I", "standard")
          [] m = "srli" ->
                Instr(m, FmtI, [opcode |-> 19, funct3 |-> 5, funct7 |-> 0], "I", "standard")
          [] m = "slliw" -> Instr(m, FmtI, [opcode |-> 27, funct3 |-> 1], "I", "standard")
          [] m = "srliw" ->
                Instr(m, FmtI, [opcode |-> 27, funct3 |-> 5, funct7 |-> 0], "I", "standard")
          [] m = "sraiw" -> Instr(m, FmtI, [opcode |-> 27, funct3 |-> 5], "I", "standard")
          [] m = "ld" -> Instr(m, FmtI, [opcode |-> 3, funct3 |-> 3], "I", "offset_base")
          [] m = "csrrw" -> Instr(m, FmtI, [opcode |-> 115, funct3 |-> 1], "Zicsr", "csr")
          [] m = "ecall" -> Instr(m, FmtI, [opcode |-> 115, funct3 |-> 0, imm |-> 0], "I", "none")
          [] m = "ebreak" -> Instr(m, FmtI, [opcode |-> 115, funct3 |-> 0, imm |-> 1], "I", "none")
          [] m = "mret" -> Instr(m, FmtI, [opcode |-> 115, funct3 |-> 0, imm |-> 770], "I", "none")
          [] m = "sll" -> Instr(m, FmtR, [opcode |-> 51, funct3 |-> 1, funct7 |-> 0], "I", "standard")
          [] m = "add" -> Instr(m, FmtR, [opcode |-> 51, funct3 |-> 0, funct7 |-> 0], "I", "standard")
          [] m = "fcvt.w.s" -> Instr(m, FmtR, [opcode |-> 83, funct7 |-> 96, rs2 |-> 0], "F", "rd_rs1")
          [] m = "fadd.s" -> Instr(m, FmtR, [opcode |-> 83, funct7 |-> 0], "F", "standard")
          [] m = "flw" -> Instr(m, FmtI, [opcode |-> 7, funct3 |-> 2], "F", "offset_base")
          [] m = "sd" -> Instr(m, FmtS, [opcode |-> 35, funct3 |-> 3], "I", "offset_base")
          [] m = "beq" -> Instr(m, FmtB, [opcode |-> 99, funct3 |-> 0], "I", "standard")
          [] m = "lui" -> Instr(m, FmtU, [opcode |-> 55], "I", "standard")
          [] m = "jal" -> Instr(m, FmtJ, [opcode |-> 111], "I", "standard")]

\* InstructionDef.format: the FormatDef object itself
FormatOf(instruction) == instruction.format

\* instruction_loader.py _build_operands_and_fields: fields, in format order
FieldSeq(instruction) == FormatOf(instruction).fields

FieldNames(instruction) == {FieldSeq(instruction)[i].name : i \in DOMAIN FieldSeq(instruction)}

FieldByName(instruction, n) ==
    LET fs == FieldSeq(instruction)
    IN fs[CHOOSE i \in DOMAIN fs : fs[i].name = n]

\* instruction_loader.py _build_operands_and_fields: operands
OperandNames(instruction) ==
    {FieldSeq(instruction)[i].name :
        i \in {j \in DOMAIN FieldSeq(instruction) :
                 FieldSeq(instruction)[j].type \in {"register", "immediate"}}}

OperandType(instruction, n) ==
    IF n \in OperandNames(instruction) THEN FieldByName(instruction, n).type ELSE "none"

(***************************************************************************)
(* Decoder (src/eumos/decoder.py).                                         *)
(***************************************************************************)
\* the word bits of one part, moved to their logical positions
PartLogicalBits(word, part) ==
    LET instr_bits == part.bits
        op_bits == part.operand_bits
        piece == IF Len(instr_bits) = 2
                 THEN extract_bits(word, instr_bits[1], instr_bits[2])
                 ELSE extract_bits(word, instr_bits[1], instr_bits[1])
        shift == IF Len(op_bits) = 2 THEN Min(op_bits[1], op_bits[2]) ELSE 0
    IN Place(piece, Abs(instr_bits[1] - instr_bits[Len(instr_bits)]) + 1, shift)

\* decoder.py _extract_field_from_word; -1 stands for None
extract_field_from_word(word, encoding) ==
    IF encoding.parts # NoParts
    THEN SumPow(UNION {PartLogicalBits(word, encoding.parts[i]) : i \in DOMAIN encoding.parts})
    ELSE IF encoding.bits # NoBits
         THEN IF Len(encoding.bits) = 2
              THEN extract_bits(word, encoding.bits[1], encoding.bits[2])
              ELSE extract_bits(word, encoding.bits[1], encoding.bits[1])
         ELSE -1

\* decoder.py _immediate_decoded_value
immediate_decoded_value(raw, format_name) ==
    CASE format_name = "I" -> sign_extend(AndMask(raw, 12), 12)
      [] format_name = "S" -> sign_extend(AndMask(raw, 12), 12)
      [] format_name = "B" -> sign_extend(AndMask(raw, 13), 13) * 2
      [] format_name = "J" -> sign_extend(AndMask(raw, 21), 21) * 2
      [] format_name = "U" -> AndMask(raw, 20)
      [] OTHER -> raw

\* decoder.py _decode_operand_values
decode_operand_values(word, instruction) ==
    LET fmt_name == FormatOf(instruction).name
        decoded == {n \in FieldNames(instruction) :
                      extract_field_from_word(word, FieldByName(instruction, n)) # -1}
    IN [n \in decoded |->
          LET encoding == FieldByName(instruction, n)
              raw == extract_field_from_word(word, encoding)
          IN IF encoding.type = "immediate"
             THEN immediate_decoded_value(raw, fmt_name)
             ELSE raw]

\* absent key component (None) of a lookup key
NoKey == -1

FixedOr(instruction, n, dflt) ==
    IF n \in DOMAIN instruction.fixed_values THEN instruction.fixed_values[n] ELSE dflt

\* decoder.py _lookup_key
lookup_key(instruction) ==
    << FixedOr(instruction, "opcode", 0), FixedOr(instruction, "funct3", NoKey),
       FixedOr(instruction, "funct7", NoKey) >>

LookupKeys == {lookup_key(Catalog[m]) : m \in Mnemonics}

\* Decoder.__init__: the later definition of a key wins; the load order of
\* the catalog (os.walk) is not fixed, so any definition of a key may win
KeyDefs(k) == {m \in Mnemonics : lookup_key(Catalog[m]) = k}

SharedKeys == {k \in LookupKeys : Cardinality(KeyDefs(k)) > 1}

LookupTables ==
    {[k \in LookupKeys |-> IF k \in SharedKeys THEN w[k] ELSE CHOOSE m \in KeyDefs(k) : TRUE] :
        w \in {g \in [SharedKeys -> UNION {KeyDefs(k) : k \in SharedKeys}] :
                  \A k \in SharedKeys : g[k] \in KeyDefs(k)}}

\* from_opc without the (opcode, funct3, None) probe
from_opc_match_two_keys(table, word32) ==
    LET opcode == extract_bits(word32, 6, 0)
        funct3 == extract_bits(word32, 14, 12)
        funct7 == extract_bits(word32, 31, 25)
    IN IF <<opcode, funct3, funct7>> \in DOMAIN table THEN table[<<opcode, funct3, funct7>>]
       ELSE IF <<opcode, NoKey, NoKey>> \in DOMAIN table THEN table[<<opcode, NoKey, NoKey>>]
       ELSE ""

\* Decoder.from_opc: the matched mnemonic, "" for None
from_opc_match(table, word32) ==
    LET opcode == extract_bits(word32, 6, 0)
        funct3 == extract_bits(word32, 14, 12)
        funct7 == extract_bits(word32, 31, 25)
    IN IF <<opcode, funct3, funct7>> \in DOMAIN table THEN table[<<opcode, funct3, funct7>>]
       ELSE IF <<opcode, funct3, NoKey>> \in DOMAIN table THEN table[<<opcode, funct3, NoKey>>]
       ELSE IF <<opcode, NoKey, NoKey>> \in DOMAIN table THEN table[<<opcode, NoKey, NoKey>>]
       ELSE ""

\* Decoder.from_opc
from_opc(table, word) ==
    LET word32 == WordMask32(word)
        instr == from_opc_match(table, word32)
    IN IF instr = "" THEN NoInstance
       ELSE [instruction |-> instr,
             operand_values |-> decode_operand_values(word32, Catalog[instr])]

(***************************************************************************)
(* Encoder (src/eumos/encoder.py).                                         *)
(***************************************************************************)
NoErr == [kind |-> "", val |-> 0, text |-> NoText]

\* an error whose message names a value
Err(k, v) == [kind |-> k, val |-> v, text |-> NoText]

\* an error whose message quotes an assembly text
ErrText(k, text) == [kind |-> k, val |-> 0, text |-> text]

\* operand_values.get(name); Absent stands for None
Get(operand_values, n) == IF n \in DOMAIN operand_values THEN operand_values[n] ELSE Absent

\* encoder.py _SHIFT_IMM_SPECS: shamt_bits
ShiftShamtBits ==
    [m \in {"slli", "srli", "srai", "slliw", "srliw", "sraiw"} |->
        IF m \in {"slli", "srli", "srai"} THEN 6 ELSE 5]

\* encoder.py _SHIFT_IMM_SPECS: upper_imm_prefix
ShiftPrefix ==
    [m \in {"slli", "srli", "srai", "slliw", "srliw", "sraiw"} |->
        IF m \in {"srai", "sraiw"} THEN 1024 ELSE 0]

\* a packing that stores B and J offsets in halfword units (the scaling of
\* InstructionInstance.to_opc) instead of byte offsets
immediate_to_raw_halved(value, format_name) ==
    CASE format_name \in {"I", "S"} -> AndMask(value, 12)
      [] format_name = "B" -> AndMask(value \div 2, 13)
      [] format_name = "J" -> AndMask(value \div 2, 21)
      [] format_name = "U" -> AndMask(value, 20)
      [] OTHER -> AndMask(value, 12)

\* encoder.py _immediate_to_raw
immediate_to_raw(value, format_name) ==
    CASE format_name \in {"I", "S"} -> AndMask(value, 12)
      [] format_name = "B" -> AndMask(value, 13)
      [] format_name = "J" -> AndMask(value, 21)
      [] format_name = "U" -> AndMask(value, 20)
      [] OTHER -> AndMask(value, 12)

\* the mnemonic starts with "csr"
StartsWithCsr(m) == m \in {"csrrw", "csrrs", "csrrc", "csrrwi", "csrrsi", "csrrci"}

\* encoder.py _is_csr_immediate_instruction
is_csr_immediate_instruction(instruction, field_name) ==
    IF field_name # "imm" THEN FALSE
    ELSE FixedOr(instruction, "opcode", NoKey) = 115 /\ StartsWithCsr(instruction.mnemonic)

IsShiftImmediate(instruction, field_name) ==
    field_name = "imm" /\ instruction.mnemonic \in DOMAIN ShiftShamtBits

\* str.upper() on the shift-immediate mnemonics
ShiftUpper ==
    [m \in {"slli", "srli", "srai", "slliw", "srliw", "sraiw"} |->
        CASE m = "slli" -> "SLLI" [] m = "srli" -> "SRLI" [] m = "srai" -> "SRAI"
          [] m = "slliw" -> "SLLIW" [] m = "srliw" -> "SRLIW" [] OTHER -> "SRAIW"]

\* the message of _encode_shift_immediate_raw, the amount aside
ShiftRangeMessage(mnemonic, max_shamt) ==
    ShiftUpper[mnemonic] \o " shift amount out of range 0.." \o ToString(max_shamt)

\* a shift-immediate encoding that ORs no prefix into the field
encode_shift_immediate_raw_no_prefix(instruction, val) ==
    LET max_shamt == (2 ^ ShiftShamtBits[instruction.mnemonic]) - 1
    IN IF ~(0 <= val /\ val <= max_shamt)
       THEN [err |-> Err(ShiftRangeMessage(instruction.mnemonic, max_shamt), val), raw |-> 0]
       ELSE [err |-> NoErr, raw |-> val]

\* encoder.py _encode_shift_immediate_raw, for a shift-immediate mnemonic
encode_shift_immediate_raw(instruction, val) ==
    LET max_shamt == (2 ^ ShiftShamtBits[instruction.mnemonic]) - 1
    IN IF ~(0 <= val /\ val <= max_shamt)
       THEN [err |-> Err(ShiftRangeMessage(instruction.mnemonic, max_shamt), val), raw |-> 0]
       ELSE [err |-> NoErr, raw |-> ShiftPrefix[instruction.mnemonic] + val]

\* a range check whose upper limits are one step too wide
validate_immediate_range_wide(val, format_name, instruction, field_name) ==
    IF field_name # "imm" THEN NoErr
    ELSE CASE format_name = "I" ->
                IF is_csr_immediate_instruction(instruction, field_name)
                THEN IF ~(0 <= val /\ val <= 4096)
                     THEN Err("CSR immediate out of range", val) ELSE NoErr
                ELSE IF ~(-2048 <= val /\ val <= 2048)
                     THEN Err("I-type immediate out of range", val) ELSE NoErr
           [] format_name = "S" ->
                IF ~(-2048 <= val /\ val <= 2048)
                THEN Err("S-type immediate out of range", val) ELSE NoErr
           [] format_name = "B" ->
                IF ~(-4096 <= val /\ val <= 4096)
                THEN Err("B-type immediate offset out of range", val) ELSE NoErr
           [] format_name = "J" ->
                IF ~(-1048576 <= val /\ val <= 1048576)
                THEN Err("J-type immediate offset out of range", val) ELSE NoErr
           [] OTHER -> NoErr

\* a range check that also bounds the U immediate to 0..2^20-1
validate_immediate_range_u_checked(val, format_name, instruction, field_name) ==
    IF field_name # "imm" THEN NoErr
    ELSE CASE format_name = "I" ->
                IF is_csr_immediate_instruction(instruction, field_name)
                THEN IF ~(0 <= val /\ val <= 4095)
                     THEN Err("CSR immediate out of range", val) ELSE NoErr
                ELSE IF ~(-2048 <= val /\ val <= 2047)
                     THEN Err("I-type immediate out of range", val) ELSE NoErr
           [] format_name = "S" ->
                IF ~(-2048 <= val /\ val <= 2047)
                THEN Err("S-type immediate out of range", val) ELSE NoErr
           [] format_name = "B" ->
                IF ~(-4096 <= val /\ val <= 4094)
                THEN Err("B-type immediate offset out of range", val) ELSE NoErr
           [] format_name = "J" ->
                IF ~(-1048576 <= val /\ val <= 1048574)
                THEN Err("J-type immediate offset out of range", val) ELSE NoErr
           [] format_name = "U" ->
                IF ~(0 <= val /\ val <= 1048575)
                THEN Err("U-type immediate out of range", val) ELSE NoErr
           [] OTHER -> NoErr

\* encoder.py _validate_immediate_range: the error raised, NoErr if none
validate_immediate_range(val, format_name, instruction, field_name) ==
    IF field_name # "imm" THEN NoErr
    ELSE CASE format_name = "I" ->
                IF is_csr_immediate_instruction(instruction, field_name)
                THEN IF ~(0 <= val /\ val <= 4095)
                     THEN Err("CSR immediate out of range", val) ELSE NoErr
                ELSE IF ~(-2048 <= val /\ val <= 2047)
                     THEN Err("I-type immediate out of range", val) ELSE NoErr
           [] format_name = "S" ->
                IF ~(-2048 <= val /\ val <= 2047)
                THEN Err("S-type immediate out of range", val) ELSE NoErr
           [] format_name = "B" ->
                IF ~(-4096 <= val /\ val <= 4094)
                THEN Err("B-type immediate offset out of range", val) ELSE NoErr
           [] format_name = "J" ->
                IF ~(-1048576 <= val /\ val <= 1048574)
                THEN Err("J-type immediate offset out of range", val) ELSE NoErr
           [] OTHER -> NoErr

\* encoder.py _encode_field_value, the immediate branch (lines 109-127)
encode_immediate_value(value, format_name, instruction, field_name) ==
    IF ~IsInt(value) THEN [err |-> Err("invalid literal for int()", 0), raw |-> 0]
    ELSE LET shift == IsShiftImmediate(instruction, field_name)
             shift_raw == IF shift THEN encode_shift_immediate_raw(instruction, value)
                          ELSE [err |-> NoErr, raw |-> 0]
             range_err == IF shift THEN NoErr
                          ELSE validate_immediate_range(value, format_name, instruction, field_name)
         IN IF shift_raw.err # NoErr THEN shift_raw
            ELSE IF range_err # NoErr THEN [err |-> range_err, raw |-> 0]
            ELSE IF format_name = "B" /\ value % 2 # 0
                 THEN [err |-> Err("B-type immediate offset not 2-byte aligned", value), raw |-> 0]
            ELSE IF format_name = "J" /\ value % 2 # 0
                 THEN [err |-> Err("J-type immediate offset not 2-byte aligned", value), raw |-> 0]
            ELSE IF shift THEN shift_raw
            ELSE [err |-> NoErr, raw |-> immediate_to_raw(value, format_name)]

\* a register branch without the 0..31 check
encode_register_value_unchecked(value) ==
    IF ~IsInt(value) THEN [err |-> Err("Register operand must be int", 0), raw |-> 0]
    ELSE [err |-> NoErr, raw |-> value]

\* encoder.py _encode_field_value, the register branch (lines 128-135)
encode_register_value(value) ==
    IF ~IsInt(value) THEN [err |-> Err("Register operand must be int", 0), raw |-> 0]
    ELSE IF ~(0 <= value /\ value <= 31)
         THEN [err |-> Err("Register index out of range 0..31", value), raw |-> 0]
         ELSE [err |-> NoErr, raw |-> value]

\* _encode_field_value lines 109-139: the raw value by the type of the field
encode_typed_value(value, encoding, format_name, instruction, field_name) ==
    CASE encoding.type = "immediate" ->
            encode_immediate_value(value, format_name, instruction, field_name)
      [] encoding.type = "register" -> encode_register_value(value)
      [] OTHER -> IF IsInt(value) THEN [err |-> NoErr, raw |-> value]
                  ELSE [err |-> Err("invalid literal for int()", 0), raw |-> 0]

\* _encode_field_value lines 141-149: the raw value masked to the field
encode_field_mask(r, encoding) ==
    IF r.err # NoErr THEN r
    ELSE IF encoding.parts # NoParts THEN r
    ELSE IF encoding.bits # NoBits
         THEN IF Len(encoding.bits) = 2
              THEN [err |-> NoErr,
                    raw |-> AndMask(r.raw, Abs(encoding.bits[1] - encoding.bits[2]) + 1)]
              ELSE [err |-> NoErr, raw |-> AndMask(r.raw, 1)]
    ELSE r

\* encoder.py _encode_field_value
encode_field_value(value, encoding, format_name, instruction, field_name) ==
    encode_field_mask(encode_typed_value(value, encoding, format_name, instruction, field_name),
                      encoding)

\* encoder.py _encode_parts, one part (lines 161-174)
encode_part(word, raw_value, part) ==
    LET instr_bits == part.bits
        op_bits == part.operand_bits
        piece == IF Len(op_bits) = 2
                 THEN AndMask(Shr(raw_value, Min(op_bits[1], op_bits[2])),
                              Abs(op_bits[1] - op_bits[2]) + 1)
                 ELSE AndMask(raw_value, 1)
    IN IF Len(instr_bits) = 2
       THEN insert_bits(word, piece, instr_bits[1], instr_bits[2])
       ELSE insert_bits(word, piece, instr_bits[1], instr_bits[1])

RECURSIVE encode_parts_from(_, _, _, _)
encode_parts_from(word, raw_value, parts, i) ==
    IF i > Len(parts) THEN word
    ELSE encode_parts_from(encode_part(word, raw_value, parts[i]), raw_value, parts, i + 1)

\* encoder.py _encode_parts
encode_parts(word, raw_value, encoding) ==
    IF encoding.parts = NoParts THEN word
    ELSE encode_parts_from(word, raw_value, encoding.parts, 1)

\* models.py InstructionDef.uses_rounding_mode_operand
uses_rounding_mode_operand(instruction) ==
    IF instruction.extension \notin {"F", "D"} THEN FALSE
    ELSE IF "funct3" \in DOMAIN instruction.fixed_values THEN FALSE
    ELSE FormatOf(instruction).name \in {"R", "R4"}

\* a resolution in which the caller's value of a name overrides fixed_values
field_value_caller_first(instruction, operand_values, n) ==
    IF n \in DOMAIN operand_values THEN operand_values[n]
    ELSE IF n \in DOMAIN instruction.fixed_values THEN instruction.fixed_values[n]
    ELSE IF n = "funct3" /\ uses_rounding_mode_operand(instruction)
         THEN Get(operand_values, "rm")
         ELSE Absent

\* encode_instruction lines 187-193: the value a field is encoded from
field_value(instruction, operand_values, n) ==
    IF n \in DOMAIN instruction.fixed_values THEN instruction.fixed_values[n]
    ELSE IF n = "funct3" /\ uses_rounding_mode_operand(instruction)
         THEN IF "rm" \in DOMAIN operand_values THEN operand_values["rm"]
              ELSE Get(operand_values, n)
         ELSE Get(operand_values, n)

\* encode_instruction lines 197-219: the raw value placed into the word
encode_field_place(word, encoding, raw) ==
    IF encoding.parts # NoParts THEN encode_parts(word, raw, encoding)
    ELSE IF Len(encoding.bits) = 2
         THEN insert_bits(word, raw, encoding.bits[1], encoding.bits[2])
         ELSE insert_bits(word, raw, encoding.bits[1], encoding.bits[1])

RECURSIVE encode_fields_from(_, _, _, _)
\* encode_instruction lines 197-219: field i, encoded to r, then the fields after it
encode_field_then(instruction, operand_values, word, i, encoding, r) ==
    IF r.err # NoErr THEN [err |-> r.err, word |-> {}]
    ELSE encode_fields_from(instruction, operand_values,
                            encode_field_place(word, encoding, r.raw), i + 1)

\* encode_instruction lines 194-219: field i with the value val it is encoded from
encode_field_at(instruction, operand_values, word, i, encoding, val) ==
    IF val = Absent \/ (encoding.parts = NoParts /\ encoding.bits = NoBits)
    THEN encode_fields_from(instruction, operand_values, word, i + 1)
    ELSE encode_field_then(instruction, operand_values, word, i, encoding,
                           encode_field_value(val, encoding, FormatOf(instruction).name,
                                              instruction, encoding.name))

\* encode_instruction lines 186-219: the loop over the fields, from field i
encode_fields_from(instruction, operand_values, word, i) ==
    IF i > Len(FieldSeq(instruction)) THEN [err |-> NoErr, word |-> word]
    ELSE encode_field_at(instruction, operand_values, word, i, FieldSeq(instruction)[i],
                         field_value(instruction, operand_values,
                                     FieldSeq(instruction)[i].name))

\* encoder.py encode_instruction
encode_instruction(instruction, operand_values) ==
    LET r == encode_fields_from(instruction, operand_values, {}, 1)
    IN IF r.err # NoErr THEN r ELSE [err |-> NoErr, word |-> WordMask32(r.word)]

(***************************************************************************)
(* InstructionInstance.to_opc (src/eumos/instance.py).                     *)
(***************************************************************************)
\* to_opc lines 331-340: the fixed values ORed into the word
to_opc_fixed_bits(instruction) ==
    UNION {LET encoding == FieldByName(instruction, n)
               value == instruction.fixed_values[n]
           IN IF encoding.bits = NoBits THEN {}
              ELSE IF Len(encoding.bits) = 2
                   THEN Place(value, Abs(encoding.bits[1] - encoding.bits[2]) + 1, encoding.bits[2])
                   ELSE Place(value, 1, encoding.bits[1])
           : n \in DOMAIN instruction.fixed_values \cap FieldNames(instruction)}

\* to_opc lines 350-372: the raw value of an operand
to_opc_raw_value(encoding, fmt_name, op_value) ==
    IF encoding.type # "immediate" THEN op_value
    ELSE CASE fmt_name = "B" -> AndMask(op_value \div 2, 13)
           [] fmt_name = "J" -> AndMask(op_value \div 2, 21)
           [] fmt_name = "U" -> AndMask(op_value, 20)
           [] fmt_name \in {"I", "S"} -> AndMask(op_value, 12)
           [] OTHER -> op_value

\* to_opc lines 377-391: one part ORed into the word
to_opc_part_bits(raw_value, part) ==
    LET instr_bits == part.bits
        op_bits == part.operand_bits
        width == IF Len(op_bits) = 2 THEN Abs(op_bits[1] - op_bits[2]) + 1 ELSE 1
        piece == IF Len(op_bits) = 2
                 THEN AndMask(Shr(raw_value, Min(op_bits[1], op_bits[2])), width)
                 ELSE AndMask(raw_value, 1)
    IN IF Len(instr_bits) = 2 THEN Place(piece, width, instr_bits[2])
       ELSE Place(piece, width, instr_bits[1])

\* to_opc lines 344-401: the bits one operand value ORs into the word
to_opc_operand_bits(instruction, op_name, op_value) ==
    IF op_name \notin FieldNames(instruction) THEN {}
    ELSE LET encoding == FieldByName(instruction, op_name)
             raw_value == to_opc_raw_value(encoding, FormatOf(instruction).name, op_value)
         IN IF encoding.parts # NoParts
            THEN UNION {to_opc_part_bits(raw_value, encoding.parts[i]) : i \in DOMAIN encoding.parts}
            ELSE IF encoding.bits # NoBits
                 THEN IF Len(encoding.bits) = 2
                      THEN Place(raw_value, Abs(encoding.bits[1] - encoding.bits[2]) + 1,
                                 encoding.bits[2])
                      ELSE Place(raw_value, 1, encoding.bits[1])
                 ELSE {}

\* a packing of operand values without the alignment check on B and J
to_opc_operand_error_unaligned(instruction, op_name, op_value) ==
    IF op_name \notin FieldNames(instruction) THEN NoErr
    ELSE LET encoding == FieldByName(instruction, op_name)
             fmt_name == FormatOf(instruction).name
         IN IF ~IsInt(op_value)
            THEN IF encoding.parts # NoParts \/ encoding.bits # NoBits
                    \/ (encoding.type = "immediate" /\ fmt_name \in {"B", "J", "U", "I", "S"})
                 THEN Err("TypeError", 0) ELSE NoErr
            ELSE NoErr

\* to_opc: the error raised while packing one operand value, NoErr if none
to_opc_operand_error(instruction, op_name, op_value) ==
    IF op_name \notin FieldNames(instruction) THEN NoErr
    ELSE LET encoding == FieldByName(instruction, op_name)
             fmt_name == FormatOf(instruction).name
         IN IF ~IsInt(op_value)
            THEN IF encoding.parts # NoParts \/ encoding.bits # NoBits
                    \/ (encoding.type = "immediate" /\ fmt_name \in {"B", "J", "U", "I", "S"})
                 THEN Err("TypeError", 0) ELSE NoErr
            ELSE IF encoding.type = "immediate" /\ fmt_name = "B" /\ op_value % 2 # 0
                 THEN Err("B-type immediate offset not 2-byte aligned", op_value)
            ELSE IF encoding.type = "immediate" /\ fmt_name = "J" /\ op_value % 2 # 0
                 THEN Err("J-type immediate offset not 2-byte aligned", op_value)
            ELSE NoErr

\* to_opc: the errors it can raise (the first failing item of the dict wins)
to_opc_errors(i) ==
    {to_opc_operand_error(Catalog[i.instruction], n, i.operand_values[n]) :
        n \in DOMAIN i.operand_values} \ {NoErr}

\* to_opc lines 327-403: the word packed for the instruction
to_opc_instruction(i, instruction) ==
    WordMask32(to_opc_fixed_bits(instruction) \cup
               UNION {to_opc_operand_bits(instruction, n, i.operand_values[n]) :
                         n \in DOMAIN i.operand_values})

\* InstructionInstance.to_opc when nothing raises
to_opc_word(i) == to_opc_instruction(i, Catalog[i.instruction])

(***************************************************************************)
(* Assembly text: [mnemonic, shape, toks]; a token is a sequence of        *)
(* characters.  Separator whitespace is not modelled: the shape says       *)
(* whether the text is the bare mnemonic, "m t1, t2, ..." or               *)
(* "m t1, ..., off(base)".                                                 *)
(***************************************************************************)
DecDigits == <<"0", "1", "2", "3", "4", "5", "6", "7", "8", "9">>

HexDigits == DecDigits \o <<"a", "b", "c", "d", "e", "f">>

IsDigitOf(c, base) == \E k \in 1 .. base : HexDigits[k] = c

DigitVal(c) == (CHOOSE k \in 1 .. 16 : HexDigits[k] = c) - 1

Upper ==
    <<"A", "B", "C", "D", "E", "F", "G", "H", "I", "J", "K", "L", "M",
      "N", "O", "P", "Q", "R", "S", "T", "U", "V", "W", "X", "Y", "Z">>

Lower ==
    <<"a", "b", "c", "d", "e", "f", "g", "h", "i", "j", "k", "l", "m",
      "n", "o", "p", "q", "r", "s", "t", "u", "v", "w", "x", "y", "z">>

\* str.lower() on one character
LowerChar(c) ==
    IF \E k \in DOMAIN Upper : Upper[k] = c
    THEN Lower[CHOOSE k \in DOMAIN Upper : Upper[k] = c] ELSE c

\* str.lower()
LowerTok(tok) == [k \in DOMAIN tok |-> LowerChar(tok[k])]

\* str.isdigit()
IsDigitTok(tok) == tok # <<>> /\ \A k \in DOMAIN tok : IsDigitOf(tok[k], 10)

\* the value of a non-empty digit string in the given base
RECURSIVE DigitsVal(_, _)
DigitsVal(tok, base) ==
    IF tok = <<>> THEN 0
    ELSE DigitsVal(SubSeq(tok, 1, Len(tok) - 1), base) * base + DigitVal(tok[Len(tok)])

RECURSIVE NatStr(_)
NatStr(n) == IF n < 10 THEN <<DecDigits[n + 1]>> ELSE NatStr(n \div 10) \o <<DecDigits[(n % 10) + 1]>>

\* str(value); the str "x1" is itself
Str(v) == IF v = StrX1 THEN <<"x", "1">> ELSE IF v < 0 THEN <<"-">> \o NatStr(-v) ELSE NatStr(v)

Tail1(tok) == SubSeq(tok, 2, Len(tok))

\* int(val, 0) on an unsigned literal: [ok, v]
parse_unsigned(tok) ==
    IF tok = <<>> THEN [ok |-> FALSE, v |-> 0]
    ELSE IF Len(tok) >= 2 /\ tok[1] = "0" /\ LowerChar(tok[2]) \in {"x", "b", "o"}
         THEN LET base == CASE LowerChar(tok[2]) = "x" -> 16
                            [] LowerChar(tok[2]) = "b" -> 2
                            [] OTHER -> 8
                  ds == LowerTok(SubSeq(tok, 3, Len(tok)))
              IN IF ds # <<>> /\ \A k \in DOMAIN ds : IsDigitOf(ds[k], base)
                 THEN [ok |-> TRUE, v |-> DigitsVal(ds, base)] ELSE [ok |-> FALSE, v |-> 0]
         ELSE IF IsDigitTok(tok) /\ (tok[1] = "0" => \A k \in DOMAIN tok : tok[k] = "0")
              THEN [ok |-> TRUE, v |-> DigitsVal(tok, 10)] ELSE [ok |-> FALSE, v |-> 0]

\* int(val, 0): [ok, v]
parse_int0(tok) ==
    IF tok # <<>> /\ tok[1] \in {"-", "+"}
    THEN LET r == parse_unsigned(Tail1(tok))
         IN IF tok[1] = "-" THEN [ok |-> r.ok, v |-> 0 - r.v] ELSE r
    ELSE parse_unsigned(tok)

\* instance.py _GPR_ABI_NAMES
GPR_ABI_NAMES ==
    << <<"z", "e", "r", "o">>, <<"r", "a">>, <<"s", "p">>, <<"g", "p">>,
       <<"t", "p">>, <<"t", "0">>, <<"t", "1">>, <<"t", "2">>,
       <<"s", "0">>, <<"s", "1">>, <<"a", "0">>, <<"a", "1">>,
       <<"a", "2">>, <<"a", "3">>, <<"a", "4">>, <<"a", "5">>,
       <<"a", "6">>, <<"a", "7">>, <<"s", "2">>, <<"s", "3">>,
       <<"s", "4">>, <<"s", "5">>, <<"s", "6">>, <<"s", "7">>,
       <<"s", "8">>, <<"s", "9">>, <<"s", "1", "0">>, <<"s", "1", "1">>,
       <<"t", "3">>, <<"t", "4">>, <<"t", "5">>, <<"t", "6">> >>

\* instance.py _reg_to_index on a str: the index, -1 for None
reg_to_index(reg) ==
    LET l == LowerTok(reg)
    IN IF \E k \in DOMAIN GPR_ABI_NAMES : GPR_ABI_NAMES[k] = l
       THEN (CHOOSE k \in DOMAIN GPR_ABI_NAMES : GPR_ABI_NAMES[k] = l) - 1
       ELSE IF l = <<"f", "p">> THEN 8
       ELSE IF \E n \in 0 .. 31 : l = <<"x">> \o NatStr(n)
            THEN CHOOSE n \in 0 .. 31 : l = <<"x">> \o NatStr(n)
            ELSE -1

(***************************************************************************)
(* InstructionInstance.to_asm (src/eumos/instance.py).                     *)
(***************************************************************************)
TemplateNames(fmt) == {fmt.asm_formats[k].name : k \in DOMAIN fmt.asm_formats}

TemplateByName(fmt, n) ==
    fmt.asm_formats[CHOOSE k \in DOMAIN fmt.asm_formats : fmt.asm_formats[k].name = n]

\* to_asm lines 270-279: the template name used ("" stands for asm_format None)
to_asm_format_name(instruction) ==
    LET fmt == FormatOf(instruction)
    IN IF instruction.asm_format # "" THEN instruction.asm_format
       ELSE IF "default" \in TemplateNames(fmt) THEN "default"
       ELSE IF "standard" \in TemplateNames(fmt) THEN "standard"
       ELSE fmt.asm_formats[1].name

\* to_asm lines 292-300: one operand rendered
to_asm_operand_str(instruction, op_name, value) ==
    IF OperandType(instruction, op_name) = "register" THEN <<"x">> \o Str(value) ELSE Str(value)

\* a rendering that takes a falsy operand value (0) for a missing one
to_asm_template_falsy(i, instruction, fmt_entry) ==
    LET operand_names == fmt_entry.operands
        missing == {k \in DOMAIN operand_names :
                      Get(i.operand_values, operand_names[k]) \in {Absent, 0}}
        operand_strs == [k \in DOMAIN operand_names |->
                           to_asm_operand_str(instruction, operand_names[k],
                                              Get(i.operand_values, operand_names[k]))]
    IN IF missing # {}
       THEN [err |-> Err("Missing operand value", CHOOSE k \in missing : \A j \in missing : k <= j),
             text |-> NoText]
       ELSE IF Len(operand_names) = 0
       THEN [err |-> NoErr,
             text |-> [mnemonic |-> instruction.mnemonic, shape |-> "bare", toks |-> <<>>]]
       ELSE IF fmt_entry.offset_base /\ Len(operand_names) >= 2
       THEN [err |-> NoErr,
             text |-> [mnemonic |-> instruction.mnemonic, shape |-> "offset_base",
                       toks |-> operand_strs]]
       ELSE [err |-> NoErr,
             text |-> [mnemonic |-> instruction.mnemonic, shape |-> "list",
                       toks |-> operand_strs]]

\* to_asm lines 281-321: the operands rendered into the template
to_asm_template(i, instruction, fmt_entry) ==
    LET operand_names == fmt_entry.operands
        missing == {k \in DOMAIN operand_names :
                      Get(i.operand_values, operand_names[k]) = Absent}
        operand_strs == [k \in DOMAIN operand_names |->
                           to_asm_operand_str(instruction, operand_names[k],
                                              Get(i.operand_values, operand_names[k]))]
    IN IF missing # {}
       THEN [err |-> Err("Missing operand value", CHOOSE k \in missing : \A j \in missing : k <= j),
             text |-> NoText]
       ELSE IF Len(operand_names) = 0
       THEN [err |-> NoErr,
             text |-> [mnemonic |-> instruction.mnemonic, shape |-> "bare", toks |-> <<>>]]
       ELSE IF fmt_entry.offset_base /\ Len(operand_names) >= 2
       THEN [err |-> NoErr,
             text |-> [mnemonic |-> instruction.mnemonic, shape |-> "offset_base",
                       toks |-> operand_strs]]
       ELSE [err |-> NoErr,
             text |-> [mnemonic |-> instruction.mnemonic, shape |-> "list",
                       toks |-> operand_strs]]

\* to_asm lines 264-280: the template chosen for the instruction
to_asm_instruction(i, instruction) ==
    IF FormatOf(instruction).asm_formats = <<>>
    THEN [err |-> Err("No asm_formats defined", 0), text |-> NoText]
    ELSE IF to_asm_format_name(instruction) \notin TemplateNames(FormatOf(instruction))
    THEN [err |-> Err("Unknown asm_format", 0), text |-> NoText]
    ELSE to_asm_template(i, instruction,
                         TemplateByName(FormatOf(instruction), to_asm_format_name(instruction)))

\* InstructionInstance.to_asm: [err, text]
to_asm(i) == to_asm_instruction(i, Catalog[i.instruction])

(***************************************************************************)
(* Decoder.from_asm (src/eumos/decoder.py).                                *)
(***************************************************************************)
\* an order of trial that ignores the declared template
format_order_as_listed(instruction) ==
    [k \in DOMAIN FormatOf(instruction).asm_formats |-> FormatOf(instruction).asm_formats[k].name]

\* from_asm lines 194-202: the template names in the order tried
format_order(instruction) ==
    LET fmt == FormatOf(instruction)
        names == [k \in DOMAIN fmt.asm_formats |-> fmt.asm_formats[k].name]
    IN IF instruction.asm_format # "" /\ instruction.asm_format \in TemplateNames(fmt)
       THEN <<instruction.asm_format>> \o SelectSeq(names, LAMBDA n : n # instruction.asm_format)
       ELSE names

\* from_asm lines 211-238, 276-282: the regular expression of a template matches
template_matches(fmt_entry, text) ==
    IF Len(fmt_entry.operands) = 0 THEN text.shape = "bare"
    ELSE IF fmt_entry.offset_base /\ Len(fmt_entry.operands) >= 2
         THEN text.shape = "offset_base" /\ Len(text.toks) = Len(fmt_entry.operands)
         ELSE text.shape = "list" /\ Len(text.toks) = Len(fmt_entry.operands)

\* from_asm lines 246-258 / 290-302: a register token: [err, v]
parse_register_token(val) ==
    IF val # <<>> /\ val[1] = "x" /\ IsDigitTok(Tail1(val))
    THEN [err |-> NoErr, v |-> DigitsVal(Tail1(val), 10)]
    ELSE IF reg_to_index(val) # -1 THEN [err |-> NoErr, v |-> reg_to_index(val)]
         ELSE [err |-> Err("Invalid register", 0), v |-> 0]

\* from_asm lines 259-263 / 303-307: an immediate token: [err, v]
parse_immediate_token(val) ==
    IF parse_int0(val).ok THEN [err |-> NoErr, v |-> parse_int0(val).v]
    ELSE [err |-> Err("Invalid immediate", 0), v |-> 0]

parse_token(instruction, op_name, val) ==
    IF OperandType(instruction, op_name) = "register" THEN parse_register_token(val)
    ELSE parse_immediate_token(val)

\* from_asm lines 264-271 / 308-315: the instance built from the parsed tokens
from_asm_values(instruction, operand_names, parsed, bad) ==
    IF bad # {}
    THEN [err |-> parsed[CHOOSE k \in bad : \A j \in bad : k <= j].err,
          instance |-> NoInstance]
    ELSE [err |-> NoErr,
          instance |->
            [instruction |-> instruction.mnemonic,
             operand_values |->
               [n \in {operand_names[k] : k \in DOMAIN operand_names} |->
                  parsed[CHOOSE k \in DOMAIN operand_names : operand_names[k] = n].v]]]

\* from_asm lines 243-263 / 287-307: the tokens parsed by operand type
from_asm_parsed(instruction, operand_names, parsed) ==
    from_asm_values(instruction, operand_names, parsed,
                    {k \in DOMAIN operand_names : parsed[k].err # NoErr})

\* from_asm lines 204-316: the first template that matches, 0 if none
from_asm_template(text, instruction, order, first) ==
    IF first = 0
    THEN [err |-> ErrText("Could not parse asm string for instruction " \o instruction.mnemonic,
                          text),
          instance |-> NoInstance]
    ELSE from_asm_parsed(instruction,
                         TemplateByName(FormatOf(instruction), order[first]).operands,
                         [k \in DOMAIN TemplateByName(FormatOf(instruction), order[first]).operands |->
                            parse_token(instruction,
                                        TemplateByName(FormatOf(instruction), order[first]).operands[k],
                                        text.toks[k])])

\* the index of the first template of order that matches text, 0 if none
first_match(text, instruction, order) ==
    IF \E k \in DOMAIN order :
          template_matches(TemplateByName(FormatOf(instruction), order[k]), text)
    THEN CHOOSE k \in DOMAIN order :
            /\ template_matches(TemplateByName(FormatOf(instruction), order[k]), text)
            /\ \A j \in 1 .. (k - 1) :
                  ~template_matches(TemplateByName(FormatOf(instruction), order[j]), text)
    ELSE 0

\* from_asm lines 186-320, for the instruction named by the text
from_asm_instruction(text, instruction) ==
    IF FormatOf(instruction).asm_formats = <<>>
    THEN [err |-> Err("No asm_formats defined", 0), instance |-> NoInstance]
    ELSE from_asm_template(text, instruction, format_order(instruction),
                           first_match(text, instruction, format_order(instruction)))

\* str.lower() on the mnemonic tokens written with capitals
MnemonicLower(m) ==
    CASE m \in {"ECALL", "Ecall", "EcAlL"} -> "ecall"
      [] m = "ADDI" -> "addi"
      [] m = "FooBar" -> "foobar"
      [] OTHER -> m

\* from_asm lines 183-184: the instruction looked up under the lowered token
from_asm_mnemonic(text, asm_mnemonic) ==
    IF asm_mnemonic \notin Mnemonics
    THEN [err |-> Err("Unknown instruction mnemonic", 0), instance |-> NoInstance]
    ELSE from_asm_instruction(text, Catalog[asm_mnemonic])

\* Decoder.from_asm: [err, instance]
from_asm(text) == from_asm_mnemonic(text, MnemonicLower(text.mnemonic))

(***************************************************************************)
(* RegisterContext (src/eumos/instance.py).                                *)
(***************************************************************************)
\* a register given as an int / as a str
IntReg(i) == [int |-> TRUE, i |-> i, tok |-> <<>>]

StrReg(tok) == [int |-> FALSE, i |-> 0, tok |-> tok]

\* a name argument: None / a str
NoName == [some |-> FALSE, s |-> <<>>]

Name(s) == [some |-> TRUE, s |-> s]

\* instance.py _reg_to_index: the index, -1 for None
reg_index_of(reg) ==
    IF reg.int THEN IF 0 <= reg.i /\ reg.i <= 31 THEN reg.i ELSE -1
    ELSE reg_to_index(reg.tok)

\* the dict of an index not yet in _entries
EmptyEntry == [name |-> NoName, value |-> Absent]

\* a set that stores the value it is given even when it is None
set_overwriting(e, reg, name, value) ==
    IF reg_index_of(reg) = -1 THEN e
    ELSE [k \in DOMAIN e \cup {reg_index_of(reg)} |->
            IF k # reg_index_of(reg) THEN e[k]
            ELSE [name |-> IF name.some THEN name
                           ELSE IF k \in DOMAIN e THEN e[k].name ELSE NoName,
                  value |-> value]]

\* RegisterContext.set: _entries after the call
set(e, reg, name, value) ==
    IF reg_index_of(reg) = -1 THEN e
    ELSE [k \in DOMAIN e \cup {reg_index_of(reg)} |->
            IF k # reg_index_of(reg) THEN e[k]
            ELSE [name |-> IF name.some THEN name
                           ELSE IF k \in DOMAIN e THEN e[k].name ELSE NoName,
                  value |-> IF value # Absent THEN value
                            ELSE IF k \in DOMAIN e THEN e[k].value ELSE Absent]]

\* RegisterContext.get_name; NoName for None
get_name(e, reg_index) ==
    IF ~(0 <= reg_index /\ reg_index <= 31) THEN NoName
    ELSE IF reg_index \in DOMAIN e /\ e[reg_index].name.some /\ e[reg_index].name.s # <<>>
         THEN e[reg_index].name
         ELSE Name(GPR_ABI_NAMES[reg_index + 1])

\* RegisterContext.get_value; Absent for None
get_value(e, reg_index) ==
    IF reg_index \in DOMAIN e THEN e[reg_index].value ELSE Absent

(***************************************************************************)
(* CSRContext and ISA.resolve_csr (src/eumos/instance.py).                 *)
(***************************************************************************)
\* a CSR key given as an int / as a str
IntKey(i) == [int |-> TRUE, i |-> i, s |-> ""]

NameKey(s) == [int |-> FALSE, i |-> 0, s |-> s]

CSRDef(name, address) == [name |-> name, address |-> address]

\* the CSR definitions of the catalog, by name
CsrTable ==
    [n \in {"mstatus", "mepc", "cycle"} |->
        CASE n = "mstatus" -> CSRDef(n, 768)
          [] n = "mepc" -> CSRDef(n, 833)
          [] OTHER -> CSRDef(n, 3072)]

\* a resolution that knows no names
csr_key_to_address_ints_only(key, csr_defs) ==
    IF key.int /\ 0 <= key.i /\ key.i <= 4095 THEN key.i ELSE -1

\* _csr_key_to_address, csr_defs being _csr_by_name (an empty table counts as
\* none); -1 for None
csr_key_to_address(key, csr_defs) ==
    IF key.int THEN IF 0 <= key.i /\ key.i <= 4095 THEN key.i ELSE -1
    ELSE IF key.s \in DOMAIN csr_defs THEN csr_defs[key.s].address ELSE -1

\* CSRContext.set: _values after the call
csr_set_at(vals, addr, value) ==
    IF addr = -1 THEN vals
    ELSE [a \in DOMAIN vals \cup {addr} |-> IF a = addr THEN value ELSE vals[a]]

csr_set(by_name, vals, key, value) ==
    csr_set_at(vals, csr_key_to_address(key, by_name), value)

\* CSRContext.get_value; Absent for None
csr_get_value_at(vals, addr) ==
    IF addr # -1 /\ addr \in DOMAIN vals THEN vals[addr] ELSE Absent

csr_get_value(by_name, vals, key) ==
    csr_get_value_at(vals, csr_key_to_address(key, by_name))

\* CSRContext.get_address; -1 for None
csr_get_address(by_name, name) ==
    IF name \in DOMAIN by_name THEN by_name[name].address ELSE -1

\* CSRContext._csr_by_address / ISA.csrs_by_address: the definitions by address
by_address(by_name) ==
    [a \in {by_name[n].address : n \in DOMAIN by_name} |->
        CHOOSE d \in {by_name[n] : n \in DOMAIN by_name} : d.address = a]

\* CSRContext.get_name; "" for None
csr_get_name(by_name, address) ==
    IF address % 4096 \in DOMAIN by_address(by_name)
    THEN by_address(by_name)[address % 4096].name ELSE ""

NoCSRDef == CSRDef("", -1)

\* ISA.resolve_csr: isa_csrs is ISA.csrs and has_csrs tells whether it is not
\* None, with_ctx whether a CSRContext is passed; [def, value]
resolve_csr_found(csr_def, with_ctx, vals, addr) ==
    [def |-> csr_def,
     value |-> IF with_ctx THEN csr_get_value_at(vals, addr) ELSE Absent]

resolve_csr_ignoring_context(has_csrs, isa_csrs, operand_values, with_ctx, vals) ==
    IF ~has_csrs \/ "imm" \notin DOMAIN operand_values
       \/ operand_values["imm"] % 4096 \notin DOMAIN by_address(isa_csrs)
    THEN [def |-> NoCSRDef, value |-> Absent]
    ELSE resolve_csr_found(by_address(isa_csrs)[operand_values["imm"] % 4096],
                           FALSE, vals, operand_values["imm"] % 4096)

resolve_csr(has_csrs, isa_csrs, operand_values, with_ctx, vals) ==
    IF ~has_csrs \/ "imm" \notin DOMAIN operand_values
       \/ operand_values["imm"] % 4096 \notin DOMAIN by_address(isa_csrs)
    THEN [def |-> NoCSRDef, value |-> Absent]
    ELSE resolve_csr_found(by_address(isa_csrs)[operand_values["imm"] % 4096],
                           with_ctx, vals, operand_values["imm"] % 4096)

(***************************************************************************)
(* Register-bank classification of an InstructionDef (src/eumos/models.py).*)
(* Of a definition the classification reads the mnemonic, the extension,   *)
(* the groups (each a sequence of path tokens), the names in fixed_values  *)
(* and the operands, a sequence of [name, type] in dict order.             *)
(***************************************************************************)
BankDef(m, ext, groups, fixed, operands) ==
    [mnemonic |-> m, extension |-> ext, groups |-> groups, fixed |-> fixed,
     operands |-> operands]

Op(n, type) == [name |-> n, type |-> type]

\* InstructionDef.in_group: a tag equal to the group or below it
in_group(d, group) ==
    \E tag \in d.groups :
       /\ Len(tag) >= Len(group)
       /\ SubSeq(tag, 1, Len(group)) = group

\* the result of _register_operand_role: None, or (is_gpr, is_dest)
NoRole == [reg |-> FALSE, gpr |-> FALSE, dest |-> FALSE]

Role(is_gpr, is_dest) == [reg |-> TRUE, gpr |-> is_gpr, dest |-> is_dest]

\* the operand op_name is in d.operands and its type is "register"
IsRegisterOperand(d, op_name) ==
    \E j \in 1..Len(d.operands) :
       d.operands[j].name = op_name /\ d.operands[j].type = "register"

\* mnem starts with "feq.", "flt.", "fle." or "fclass."
StartsWithCompareOrClass(mnem) ==
    mnem \in {"feq.s", "feq.d", "flt.s", "flt.d", "fle.s", "fle.d", "fclass.s", "fclass.d"}

rd_is_gpr(mnem) ==
    \/ StartsWithCompareOrClass(mnem)
    \/ mnem \in {"fcvt.w.s", "fcvt.wu.s", "fcvt.w.d", "fcvt.wu.d",
                 "fcvt.l.s", "fcvt.lu.s", "fcvt.l.d", "fcvt.lu.d"}
    \/ mnem \in {"fmv.x.w", "fmv.x.d"}

rs1_is_gpr(mnem) ==
    \/ mnem \in {"fcvt.s.w", "fcvt.s.wu", "fcvt.s.l", "fcvt.s.lu",
                 "fcvt.d.w", "fcvt.d.wu", "fcvt.d.l", "fcvt.d.lu"}
    \/ mnem \in {"fmv.w.x", "fmv.d.x"}

\* a classification that counts a fixed rs2 / rs3 as a source
register_operand_role_fixed_as_source(d, op_name) ==
    IF ~IsRegisterOperand(d, op_name) THEN NoRole
    ELSE IF d.extension \notin {"F", "D"} THEN Role(TRUE, op_name = "rd")
    ELSE IF in_group(d, <<"float", "load">>)
         THEN IF op_name = "rd" THEN Role(FALSE, TRUE)
              ELSE IF op_name = "rs1" THEN Role(TRUE, FALSE) ELSE NoRole
    ELSE IF in_group(d, <<"float", "store">>)
         THEN IF op_name = "rs2" THEN Role(FALSE, FALSE)
              ELSE IF op_name = "rs1" THEN Role(TRUE, FALSE) ELSE NoRole
    ELSE IF op_name = "rd" THEN Role(rd_is_gpr(d.mnemonic), TRUE)
    ELSE IF op_name = "rs1" THEN Role(rs1_is_gpr(d.mnemonic), FALSE)
    ELSE Role(FALSE, FALSE)

\* InstructionDef._register_operand_role
register_operand_role(d, op_name) ==
    IF ~IsRegisterOperand(d, op_name) THEN NoRole
    ELSE IF d.extension \notin {"F", "D"} THEN Role(TRUE, op_name = "rd")
    ELSE IF in_group(d, <<"float", "load">>)
         THEN IF op_name = "rd" THEN Role(FALSE, TRUE)
              ELSE IF op_name = "rs1" THEN Role(TRUE, FALSE) ELSE NoRole
    ELSE IF in_group(d, <<"float", "store">>)
         THEN IF op_name = "rs2" THEN Role(FALSE, FALSE)
              ELSE IF op_name = "rs1" THEN Role(TRUE, FALSE) ELSE NoRole
    ELSE IF op_name = "rd" THEN Role(rd_is_gpr(d.mnemonic), TRUE)
    ELSE IF op_name = "rs1" THEN Role(rs1_is_gpr(d.mnemonic), FALSE)
    ELSE IF op_name \in {"rs2", "rs3"}
         THEN IF op_name \in d.fixed THEN NoRole ELSE Role(FALSE, FALSE)
    ELSE Role(FALSE, FALSE)

\* the names of d.operands, in order
OperandSeq(d) == [j \in 1..Len(d.operands) |-> d.operands[j].name]

RECURSIVE operands_with_role(_, _, _)
\* the loop of the four list accessors: the operands whose role is r
operands_with_role(d, r, j) ==
    IF j > Len(d.operands) THEN <<>>
    ELSE (IF register_operand_role(d, d.operands[j].name) = r
          THEN <<d.operands[j].name>> ELSE <<>>)
         \o operands_with_role(d, r, j + 1)

gpr_source_operands(d) == operands_with_role(d, Role(TRUE, FALSE), 1)

gpr_dest_operands(d) == operands_with_role(d, Role(TRUE, TRUE), 1)

fpr_source_operands(d) == operands_with_role(d, Role(FALSE, FALSE), 1)

fpr_dest_operands(d) == operands_with_role(d, Role(FALSE, TRUE), 1)

\* a bank lookup that knows only the integer bank
operand_register_bank_gpr_only(d, op_name) ==
    IF register_operand_role(d, op_name) = NoRole THEN "" ELSE "gpr"

\* InstructionDef.operand_register_bank; "" for None
operand_register_bank(d, op_name) ==
    IF register_operand_role(d, op_name) = NoRole THEN ""
    ELSE IF register_operand_role(d, op_name).gpr THEN "gpr" ELSE "fpr"

\* InstructionDef.operand_banks
operand_banks(d) ==
    [n \in {d.operands[j].name : j \in {l \in 1..Len(d.operands) :
                operand_register_bank(d, d.operands[l].name) # ""}} |->
        operand_register_bank(d, n)]

(***************************************************************************)
(* The inputs explored.                                                    *)
(***************************************************************************)
OverRange == (32 .. (31 + RegOver)) \cup ((0 - RegOver) .. -1)

RegVals == {0, 1, 2, 31} \cup OverRange \cup {StrX1}

\* the limits of the legal range of the imm operand of a mnemonic
ImmLimits(m) ==
    CASE m \in {"slli", "srli", "srai"} -> {0, 63}
      [] m \in {"slliw", "srliw", "sraiw"} -> {0, 31}
      [] m = "csrrw" -> {0, 4095}
      [] m = "beq" -> {-4096, 4094}
      [] m = "jal" -> {-1048576, 1048574}
      [] m = "lui" -> {0, 1048575}
      [] OTHER -> {-2048, 2047}

\* the immediates of the documented examples
ImmExamples(m) ==
    CASE m = "beq" -> {4, -4, 8}
      [] m = "jal" -> {44, -4, 12}
      [] m = "csrrw" -> {3072, 833}
      [] m \in {"srai", "sraiw"} -> {1}
      [] m = "lui" -> {74565}
      [] m = "sd" -> {8}
      [] OTHER -> {4}

ImmVals(m) ==
    {l + d : l \in ImmLimits(m), d \in (0 - ImmSpread) .. ImmSpread} \cup ImmExamples(m)

\* the operand values of the documented example of mnemonic m
ExampleValue(m, n) ==
    CASE n = "imm" -> CHOOSE v \in ImmExamples(m) : \A w \in ImmExamples(m) : v <= w
      [] n = "rd" -> IF m = "jal" THEN 0 ELSE 1
      [] n = "rs1" -> IF m = "beq" THEN 1 ELSE 2
      [] n = "rs2" -> IF m = "beq" THEN 2 ELSE 3
      [] OTHER -> 0

\* the values drawn for operand n of mnemonic m (Absent: the key is left out)
OperandDomain(m, n) ==
    IF OperandType(Catalog[m], n) = "immediate" THEN ImmVals(m) \cup {Absent}
    ELSE IF n \in DOMAIN Catalog[m].fixed_values THEN {Absent, 0} \cup OverRange
    ELSE RegVals \cup {Absent}

\* the rounding modes and funct3 values a caller supplies by name
\* (rm 7 is the default of from_asm, rm 5 the explicit one of the tests)
FunctEntries ==
    {[rm |-> 5], [rm |-> 7], [funct3 |-> 1], [rm |-> 5, funct3 |-> 1], [rm |-> 0, funct3 |-> 7]}

\* the documented example of mnemonic m with such entries added
FunctMaps(m) ==
    LET free == {k \in OperandNames(Catalog[m]) : k \notin DOMAIN Catalog[m].fixed_values}
    IN {[k \in free \cup DOMAIN e |-> IF k \in DOMAIN e THEN e[k] ELSE ExampleValue(m, k)] :
           e \in FunctEntries}

\* the operand-value maps drawn for mnemonic m: the documented example with
\* at most one operand replaced by a value of its domain, or with a rounding
\* mode or funct3 added
OperandMaps(m) ==
    LET ns == OperandNames(Catalog[m])
        free == {k \in ns : k \notin DOMAIN Catalog[m].fixed_values}
        base == [k \in free |-> ExampleValue(m, k)]
        replaced(n) == {[k \in {j \in free \cup {n} : j # n \/ v # Absent} |->
                            IF k = n THEN v ELSE base[k]] : v \in OperandDomain(m, n)}
    IN {base} \cup UNION {replaced(n) : n \in ns} \cup
       (IF m \in {"fadd.s", "fcvt.w.s", "addi", "lui"} THEN FunctMaps(m) ELSE {})

XTok(n) == <<"x">> \o NatStr(n)

ListText(m, toks) == [mnemonic |-> m, shape |-> "list", toks |-> toks]

OffsetBaseText(m, toks) == [mnemonic |-> m, shape |-> "offset_base", toks |-> toks]

BareText(m) == [mnemonic |-> m, shape |-> "bare", toks |-> <<>>]

\* the register indices written in the texts drawn
TextIndices == {0, 31, 32, 33, 40, 100} \cup (32 .. (31 + RegOver))

\* the documented examples of assembly text
CanonicalTexts ==
    {ListText("addi", <<XTok(1), XTok(2), Str(4)>>),
     ListText("sll", <<XTok(3), XTok(4), XTok(5)>>),
     OffsetBaseText("sd", <<XTok(6), Str(8), XTok(7)>>),
     ListText("beq", <<XTok(1), XTok(2), Str(8)>>),
     ListText("jal", <<XTok(1), Str(12)>>),
     BareText("ecall")}

AsmProbes ==
    CanonicalTexts \cup
    {BareText("ebreak"), BareText("mret"), BareText("addi"), BareText("foobar"),
     BareText("ECALL"), BareText("Ecall"), BareText("EcAlL"), BareText("FooBar"),
     ListText("ADDI", <<XTok(1), XTok(2), Str(4)>>),
     ListText("foobar", <<XTok(1), XTok(2), XTok(3)>>),
     ListText("csrrw", <<XTok(1), <<"0", "x", "3", "0", "0">>, XTok(2)>>),
     ListText("ecall", <<XTok(1)>>),
     ListText("addi", <<XTok(1), XTok(2), <<"0", "b", "1", "0", "1">> >>),
     ListText("addi", <<XTok(1), XTok(2), <<"1", "2", "a">> >>),
     OffsetBaseText("flw", <<<<"f", "2">>, Str(4), XTok(3)>>),
     ListText("fadd.s", <<<<"f", "a", "0">>, <<"f", "a", "1">>, <<"f", "a", "0">> >>),
     ListText("lui", <<XTok(2), <<"0", "x", "1", "2", "3", "4", "5">> >>),
     ListText("addi", <<<<"r", "a">>, <<"s", "p">>, <<"-", "1">> >>),
     ListText("addi", <<XTok(1), <<"q", "9">>, Str(4)>>),
     ListText("addi", <<XTok(1), XTok(2), <<"4", "x">> >>),
     ListText("beq", <<XTok(1), XTok(2), Str(4)>>),
     ListText("jal", <<XTok(0), Str(44)>>),
     OffsetBaseText("addi", <<XTok(1), Str(4), XTok(2)>>)} \cup
    {ListText("addi", <<XTok(n), XTok(1), Str(4)>>) : n \in TextIndices} \cup
    {ListText("add", <<XTok(1), XTok(2), XTok(n)>>) : n \in TextIndices} \cup
    {ListText("sll", <<XTok(1), XTok(n), XTok(3)>>) : n \in TextIndices} \cup
    {OffsetBaseText("ld", <<XTok(n), Str(8), XTok(7)>>) : n \in TextIndices} \cup
    {OffsetBaseText("sd", <<XTok(6), Str(8), XTok(n)>>) : n \in TextIndices}

\* the words drawn for from_opc: the documented examples and a grid of
\* field patterns under every opcode of the catalog and an unknown one
ExampleWords ==
    {Word(32, 33379), Word(704, 111), Word(65503, 61551), Word(65535, 65535),
     Word(65, 147), Word(65520, 19), Word(96, 239), Word(0, 115), Word(16, 115),
     Word(49153, 4339), Word(16401, 20627), Word(17393, 20627), Word(85, 34131),
     Word(704, 111) \cup {32, 35}, Word(12320, 115)}

GridWords ==
    {Place(opc, 7, 0) \cup Place(c1, 5, 7) \cup Place(f3, 3, 12) \cup Place(c2, 5, 15) \cup
     Place(c3, 5, 20) \cup Place(c4, 7, 25) :
        opc \in {3, 19, 27, 35, 51, 55, 83, 99, 111, 115, 127},
        c1 \in {0, 31}, f3 \in {0, 1, 3, 5, 7}, c2 \in {0, 31}, c3 \in {0, 31},
        c4 \in {0, 63, 64, 127}}

WordProbes == ExampleWords \cup GridWords

\* the values a caller writes into operand_values of a parsed instance
RewriteVals(type) == IF type = "register" THEN OverRange ELSE {9, 11, 10}

(***************************************************************************)
(* The state machine: a caller holding one decoder and at most one         *)
(* InstructionInstance, making one call at a time.                         *)
(***************************************************************************)
VARIABLES
    lookup,   \* Decoder._lookup
    inst,     \* the InstructionInstance the caller holds, NoInstance if none
    call,     \* the last call: [op, text, word] (text / word: its argument)
    result,   \* what the last call returned or raised: [kind, word, text, err]
    trips,    \* returned words / texts fed back to the decoder so far
    entries,  \* RegisterContext._entries of the caller's register context
    history,  \* the set calls made so far on the caller's context, in order
    csr_by_name,  \* CSRContext._csr_by_name of the caller's CSR context
    csr_values,   \* CSRContext._values of the caller's CSR context
    gpr_defs,     \* the module global _GPR_DEFS of instance.py
    threads,      \* each thread's position in get_gpr_def and what it holds
    loads         \* how many times gpr_loader.load_all_gprs has run

vars == <<lookup, inst, call, result, trips, entries, history,
          csr_by_name, csr_values, gpr_defs, threads, loads>>

\* the caller's RegisterContext and CSRContext
contexts == <<entries, history, csr_by_name, csr_values>>

\* the lazily filled GPR definition table and the threads that use it
gpr_cache == <<gpr_defs, threads, loads>>

\* what no call on a decoder or an instance touches
session == <<lookup, contexts, gpr_cache>>

\* _GPR_DEFS before first use
NotLoaded == 0

\* no CSR context in use and no thread started
InitIdle ==
    /\ csr_by_name = <<>>
    /\ csr_values = <<>>
    /\ gpr_defs = NotLoaded
    /\ threads = <<>>
    /\ loads = 0

NoWord == {}

Call(op, text, word) == [op |-> op, text |-> text, word |-> word]

Result(kind, word, text, err) == [kind |-> kind, word |-> word, text |-> text, err |-> err]

Raised(err) == Result("error", NoWord, NoText, err)

Init ==
    /\ lookup \in LookupTables
    /\ inst = NoInstance
    /\ call = Call("init", NoText, NoWord)
    /\ result = Result("none", NoWord, NoText, NoErr)
    /\ trips = 0
    /\ entries = <<>>
    /\ history = <<>>
    /\ InitIdle

\* the caller builds InstructionInstance(instruction, operand_values)
Construct(m, vals) ==
    /\ inst' = [instruction |-> m, operand_values |-> vals]
    /\ call' = Call("construct", NoText, NoWord)
    /\ result' = Result("none", NoWord, NoText, NoErr)
    /\ UNCHANGED <<session, trips>>

\* decoder.from_opc(word)
FromOpc(word) ==
    /\ inst' = from_opc(lookup, word)
    /\ call' = Call("from_opc", NoText, word)
    /\ result' = IF inst' = NoInstance THEN Result("no_match", NoWord, NoText, NoErr)
                  ELSE Result("instance", NoWord, NoText, NoErr)
    /\ UNCHANGED session

\* decoder.from_opc on a word drawn by the caller
FromOpcProbe ==
    call.op = "init" /\ UNCHANGED trips /\ \E word \in WordProbes : FromOpc(word)

\* decoder.from_opc on the word the last call returned
FromOpcResult ==
    /\ result.kind = "word"
    /\ trips < MaxRoundTrips
    /\ trips' = trips + 1
    /\ FromOpc(result.word)

\* decoder.from_asm(text) returning or raising r
FromAsmReturn(text, r) ==
    /\ inst' = r.instance
    /\ call' = Call("from_asm", text, NoWord)
    /\ result' = IF r.err # NoErr THEN Raised(r.err)
                  ELSE Result("instance", NoWord, NoText, NoErr)
    /\ UNCHANGED session

\* decoder.from_asm(text)
FromAsm(text) == FromAsmReturn(text, from_asm(text))

\* decoder.from_asm on a text drawn by the caller
FromAsmProbe ==
    call.op = "init" /\ UNCHANGED trips /\ \E text \in AsmProbes : FromAsm(text)

\* decoder.from_asm on the text the last call returned
FromAsmResult ==
    /\ result.kind = "text"
    /\ trips < MaxRoundTrips
    /\ trips' = trips + 1
    /\ FromAsm(result.text)

\* an encode_instruction that removes from the caller's map the operands it
\* has encoded
EncodeInstructionReturn_consuming(r) ==
    /\ result' = IF r.err # NoErr THEN Raised(r.err)
                  ELSE Result("word", r.word, NoText, NoErr)
    /\ call' = Call("encode_instruction", NoText, NoWord)
    /\ inst' = [inst EXCEPT !.operand_values =
                   [n \in DOMAIN inst.operand_values \ FieldNames(Catalog[inst.instruction]) |->
                       inst.operand_values[n]]]
    /\ UNCHANGED <<session, trips>>

\* encode_instruction returning or raising r
EncodeInstructionReturn(r) ==
    /\ result' = IF r.err # NoErr THEN Raised(r.err)
                  ELSE Result("word", r.word, NoText, NoErr)
    /\ call' = Call("encode_instruction", NoText, NoWord)
    /\ UNCHANGED <<session, inst, trips>>

\* encode_instruction(inst.instruction, inst.operand_values)
EncodeInstruction ==
    /\ inst # NoInstance
    /\ EncodeInstructionReturn(encode_instruction(Catalog[inst.instruction], inst.operand_values))

\* inst.to_opc()
ToOpc ==
    /\ inst # NoInstance
    /\ \/ /\ to_opc_errors(inst) = {}
          /\ result' = Result("word", to_opc_word(inst), NoText, NoErr)
       \/ \E e \in to_opc_errors(inst) : result' = Raised(e)
    /\ call' = Call("to_opc", NoText, NoWord)
    /\ UNCHANGED <<session, inst, trips>>

\* inst.to_asm() returning or raising r
ToAsmReturn(r) ==
    /\ result' = IF r.err # NoErr THEN Raised(r.err)
                  ELSE Result("text", NoWord, r.text, NoErr)
    /\ call' = Call("to_asm", NoText, NoWord)
    /\ UNCHANGED <<session, inst, trips>>

\* inst.to_asm()
ToAsm == inst # NoInstance /\ ToAsmReturn(to_asm(inst))

\* the caller rewrites inst.operand_values[n] of the instance parsed from a
\* documented text
Rewrite ==
    /\ call.op = "from_asm"
    /\ call.text \in CanonicalTexts
    /\ inst # NoInstance
    /\ \E n \in DOMAIN inst.operand_values :
          \E v \in RewriteVals(OperandType(Catalog[inst.instruction], n)) :
             inst' = [inst EXCEPT !.operand_values[n] = v]
    /\ call' = Call("rewrite", NoText, NoWord)
    /\ result' = Result("none", NoWord, NoText, NoErr)
    /\ UNCHANGED <<session, trips>>

\* the caller builds an instance from a mnemonic and a map it draws
ConstructAny ==
    call.op = "init" /\ \E m \in Mnemonics : \E vals \in OperandMaps(m) : Construct(m, vals)

Next ==
    \/ ConstructAny
    \/ FromOpcProbe
    \/ FromOpcResult
    \/ FromAsmProbe
    \/ FromAsmResult
    \/ EncodeInstruction
    \/ ToOpc
    \/ ToAsm
    \/ Rewrite

Spec == Init /\ [][Next]_vars

(***************************************************************************)
(* to_asm on instances a caller builds from its own InstructionDef         *)
(* objects, whose asm_format is optional and not checked by a loader.      *)
(***************************************************************************)
\* an I-layout format whose templates include "default", not in first place
FmtDefault ==
    [name |-> "I", fields |-> FmtI.fields,
     asm_formats |-> << Template("standard", <<"rd", "rs1", "imm">>, FALSE),
                        Template("default", <<"rd", "imm">>, FALSE) >>]

\* a format whose templates have neither "default" nor "standard"
FmtPlain ==
    [name |-> "I", fields |-> FmtI.fields,
     asm_formats |-> << Template("offset_base", <<"rd", "imm", "rs1">>, TRUE),
                        Template("none", <<>>, FALSE) >>]

CustomNames == {"unset_i", "unset_default", "unset_plain", "offset_i", "none_i", "unknown_i"}

\* the InstructionDef objects of the caller, by the name it keeps them under
CustomDefs ==
    [d \in CustomNames |->
        CASE d = "unset_i" -> Instr(d, FmtI, [opcode |-> 19, funct3 |-> 0], "I", "")
          [] d = "unset_default" -> Instr(d, FmtDefault, [opcode |-> 19, funct3 |-> 0], "I", "")
          [] d = "unset_plain" -> Instr(d, FmtPlain, [opcode |-> 3, funct3 |-> 3], "I", "")
          [] d = "offset_i" -> Instr(d, FmtI, [opcode |-> 3, funct3 |-> 3], "I", "offset_base")
          [] d = "none_i" -> Instr(d, FmtI, [opcode |-> 115, funct3 |-> 0], "I", "none")
          [] OTHER -> Instr(d, FmtI, [opcode |-> 19, funct3 |-> 0], "I", "compact")]

\* the operand-value maps of those instances: each operand left out, 0 or not
CustomMaps ==
    UNION {[ns -> {0, 5}] : ns \in SUBSET {"rd", "rs1", "imm"}}

InitToAsm ==
    /\ lookup \in LookupTables
    /\ inst \in {[instruction |-> d, operand_values |-> v] : d \in CustomNames, v \in CustomMaps}
    /\ call = Call("init", NoText, NoWord)
    /\ result = Result("none", NoWord, NoText, NoErr)
    /\ trips = 0
    /\ entries = <<>>
    /\ history = <<>>
    /\ InitIdle

\* inst.to_asm() on an instance of a caller's InstructionDef
ToAsmCustom ==
    /\ call.op = "init"
    /\ ToAsmReturn(to_asm_instruction(inst, CustomDefs[inst.instruction]))

NextToAsm == ToAsmCustom

SpecToAsm == InitToAsm /\ [][NextToAsm]_vars

(***************************************************************************)
(* A caller making set calls on one RegisterContext.                       *)
(***************************************************************************)
\* the registers named in the calls: by index, by xN, by ABI name, by 'fp',
\* and registers that do not resolve
SetRegs ==
    {IntReg(8), StrReg(<<"f", "p">>), StrReg(<<"s", "0">>), StrReg(<<"x", "8">>),
     IntReg(1), IntReg(32), StrReg(<<"q", "9">>)}

\* the aliases given: None, the empty string and two names
SetNames == {NoName, Name(<<>>), Name(<<"g", "p", "1">>), Name(<<"a", "c", "c">>)}

\* the values given: None, 0 and a non-zero value
SetValues == {Absent, 0, 4660}

InitRegs ==
    /\ lookup = <<>>
    /\ inst = NoInstance
    /\ call = Call("init", NoText, NoWord)
    /\ result = Result("none", NoWord, NoText, NoErr)
    /\ trips = 0
    /\ entries = <<>>
    /\ history = <<>>
    /\ InitIdle

\* regs.set(reg, name=name, value=value)
Set(reg, name, value) ==
    /\ entries' = set(entries, reg, name, value)
    /\ history' = Append(history, [reg |-> reg, name |-> name, value |-> value])
    /\ call' = Call("set", NoText, NoWord)
    /\ UNCHANGED <<lookup, inst, result, trips, csr_by_name, csr_values, gpr_cache>>

SetAny ==
    /\ Len(history) < MaxSets
    /\ \E reg \in SetRegs : \E name \in SetNames : \E value \in SetValues :
          Set(reg, name, value)

NextRegs == SetAny

SpecRegs == InitRegs /\ [][NextRegs]_vars

(***************************************************************************)
(* A caller holding one CSRContext and one decoded instance, making set    *)
(* calls on the context and resolve_csr calls on ISA objects it builds.    *)
(***************************************************************************)
\* the keys of the calls: addresses, a name of the table and an unknown one,
\* and ints outside 0..0xFFF
CsrKeys ==
    {IntKey(768), IntKey(3072), IntKey(4096), IntKey(-1),
     NameKey("mstatus"), NameKey("nosuch")}

\* the values set: None and two words
CsrSetValues == {Absent, 136, 4660}

\* csrrw x1, 0x341, x2; csrrw on 0xC00, whose decoded imm is negative; csrrw
\* on an address no CSR has; add x1, x2, x3, which has no imm
CsrWords ==
    {Word(13329, 4339), Word(49153, 4339), Word(31745, 4339), Word(49, 179)}

InitCsr ==
    /\ lookup \in LookupTables
    /\ inst \in {from_opc(lookup, w) : w \in CsrWords}
    /\ call = [op |-> "init"]
    /\ result = [def |-> NoCSRDef, value |-> Absent]
    /\ trips = 0
    /\ entries = <<>>
    /\ history = <<>>
    /\ csr_by_name \in {<<>>, CsrTable}
    /\ csr_values = <<>>
    /\ gpr_defs = NotLoaded
    /\ threads = <<>>
    /\ loads = 0

\* ctx.set(key, value)
CsrSet(key, value) ==
    /\ csr_values' = csr_set(csr_by_name, csr_values, key, value)
    /\ history' = Append(history, [key |-> key, value |-> value])
    /\ call' = [op |-> "set"]
    /\ UNCHANGED <<lookup, inst, result, trips, entries, csr_by_name, gpr_cache>>

CsrSetAny ==
    /\ Len(history) < MaxSets
    /\ \E key \in CsrKeys : \E value \in CsrSetValues : CsrSet(key, value)

\* ISA(csrs=isa_csrs).resolve_csr(inst, ctx) or .resolve_csr(inst)
ResolveCsr(has_csrs, isa_csrs, with_ctx) ==
    /\ result' = resolve_csr(has_csrs, isa_csrs, inst.operand_values, with_ctx, csr_values)
    /\ call' = [op |-> "resolve_csr", has_csrs |-> has_csrs, isa_csrs |-> isa_csrs,
                with_ctx |-> with_ctx]
    /\ UNCHANGED <<lookup, inst, trips, contexts, gpr_cache>>

ResolveCsrAny ==
    \E with_ctx \in BOOLEAN :
       \/ ResolveCsr(FALSE, <<>>, with_ctx)
       \/ \E isa_csrs \in {<<>>, CsrTable} : ResolveCsr(TRUE, isa_csrs, with_ctx)

NextCsr == CsrSetAny \/ ResolveCsrAny

SpecCsr == InitCsr /\ [][NextCsr]_vars

(***************************************************************************)
(* A caller asking for the register banks of one InstructionDef.           *)
(***************************************************************************)
BankMnemonics ==
    {"add", "flw", "fsw", "fadd.s", "fsqrt.s", "feq.s", "fclass.d", "fcvt.w.s",
     "fmv.x.w", "fcvt.s.w", "fmv.w.x"}

BankExtensions == {"I", "F", "D"}

\* arithmetic, the load group, a group below it, and the store group
BankGroups ==
    {{<<"float", "arith">>}, {<<"float", "load">>}, {<<"float", "load", "word">>},
     {<<"float", "store">>}}

\* the operand names that are in fixed_values
BankFixed == {{}, {"rs2"}, {"rs1"}, {"rs3"}}

BankOperands ==
    {<<Op("rd", "register"), Op("rs1", "register"), Op("rs2", "register")>>,
     <<Op("rd", "register"), Op("rs1", "register"), Op("imm", "immediate")>>,
     <<Op("rs1", "register"), Op("rs2", "register"), Op("imm", "immediate")>>,
     <<Op("rd", "register"), Op("rs1", "register"), Op("rs2", "register"),
       Op("rs3", "register")>>}

BankDefs ==
    {BankDef(m, ext, groups, fixed, operands) :
        m \in BankMnemonics, ext \in BankExtensions, groups \in BankGroups,
        fixed \in BankFixed, operands \in BankOperands}

NoLists == [gpr_source |-> <<>>, gpr_dest |-> <<>>, fpr_source |-> <<>>,
            fpr_dest |-> <<>>, banks |-> <<>>]

\* inst holds the InstructionDef the caller asks about
InitBanks ==
    /\ lookup = <<>>
    /\ inst \in BankDefs
    /\ call = [op |-> "init"]
    /\ result = NoLists
    /\ trips = 0
    /\ entries = <<>>
    /\ history = <<>>
    /\ InitIdle

\* the four list accessors and operand_banks() on the definition
Classify ==
    /\ call.op = "init"
    /\ call' = [op |-> "classify"]
    /\ result' = [gpr_source |-> gpr_source_operands(inst),
                  gpr_dest |-> gpr_dest_operands(inst),
                  fpr_source |-> fpr_source_operands(inst),
                  fpr_dest |-> fpr_dest_operands(inst),
                  banks |-> operand_banks(inst)]
    /\ UNCHANGED <<inst, trips, session>>

NextBanks == Classify

SpecBanks == InitBanks /\ [][NextBanks]_vars

(***************************************************************************)
(* Threads of one process calling get_gpr_def, or get_reset_value /        *)
(* get_access on a RegisterContext built without definitions, each once.   *)
(* A thread may be preempted between any two accesses to the global        *)
(* _GPR_DEFS.  A table is named by the number of the load that built it;   *)
(* load_all_gprs is taken to succeed.                                      *)
(***************************************************************************)
Threads == 1..MaxThreads

GprOps == {"get_gpr_def", "get_reset_value", "get_access"}

GprIndices == {0, 31, 32}

\* a thread: where it is, what it called, the table its load built and the
\* table its return read
Thread(pc, op, reg_index, loaded, seen) ==
    [pc |-> pc, op |-> op, reg_index |-> reg_index, loaded |-> loaded, seen |-> seen]

InitGpr ==
    /\ lookup = <<>>
    /\ inst = NoInstance
    /\ call = [op |-> "init"]
    /\ result = Result("none", NoWord, NoText, NoErr)
    /\ trips = 0
    /\ entries = <<>>
    /\ history = <<>>
    /\ csr_by_name = <<>>
    /\ csr_values = <<>>
    /\ gpr_defs = NotLoaded
    /\ threads = [t \in Threads |-> Thread("idle", "", 0, NotLoaded, NotLoaded)]
    /\ loads = 0

GprFrame == UNCHANGED <<lookup, inst, call, result, trips, contexts>>

\* the thread enters the call; get_reset_value / get_access return None for an
\* index outside 0..31 before they reach get_gpr_def
GprCall(t, op, reg_index) ==
    /\ threads[t].pc = "idle"
    /\ threads' = [threads EXCEPT ![t] =
          Thread(IF op # "get_gpr_def" /\ ~(0 <= reg_index /\ reg_index <= 31)
                 THEN "done" ELSE "check", op, reg_index, NotLoaded, NotLoaded)]
    /\ UNCHANGED <<gpr_defs, loads>>
    /\ GprFrame

\* if _GPR_DEFS is None
GprCheck(t) ==
    /\ threads[t].pc = "check"
    /\ threads' = [threads EXCEPT ![t].pc = IF gpr_defs = NotLoaded THEN "load" ELSE "return"]
    /\ UNCHANGED <<gpr_defs, loads>>
    /\ GprFrame

\* gpr_loader.load_all_gprs() builds a table
GprLoad(t) ==
    /\ threads[t].pc = "load"
    /\ loads' = loads + 1
    /\ threads' = [threads EXCEPT ![t].pc = "store", ![t].loaded = loads + 1]
    /\ UNCHANGED gpr_defs
    /\ GprFrame

\* _GPR_DEFS = the table
GprStore(t) ==
    /\ threads[t].pc = "store"
    /\ gpr_defs' = threads[t].loaded
    /\ threads' = [threads EXCEPT ![t].pc = "return"]
    /\ UNCHANGED loads
    /\ GprFrame

\* return _GPR_DEFS.get(reg_index), or None for an index outside 0..31
GprReturn(t) ==
    /\ threads[t].pc = "return"
    /\ threads' = [threads EXCEPT ![t].pc = "done", ![t].seen = gpr_defs]
    /\ UNCHANGED <<gpr_defs, loads>>
    /\ GprFrame

GprCallAny == \E t \in Threads : \E op \in GprOps : \E i \in GprIndices : GprCall(t, op, i)

GprCheckAny == \E t \in Threads : GprCheck(t)

GprLoadAny == \E t \in Threads : GprLoad(t)

GprStoreAny == \E t \in Threads : GprStore(t)

GprReturnAny == \E t \in Threads : GprReturn(t)

NextGpr == GprCallAny \/ GprCheckAny \/ GprLoadAny \/ GprStoreAny \/ GprReturnAny

SpecGpr == InitGpr /\ [][NextGpr]_vars

(***************************************************************************)
(* The field codec on its own: one field encoding, one word and one raw    *)
(* value; the value is inserted into the word as encode_instruction does   *)
(* for a field, and the field is extracted from the result.                *)
(***************************************************************************)
\* a part with no operand_bits
BarePart(msb, lsb) == [bits |-> <<msb, lsb>>, operand_bits |-> <<>>]

\* the encodings of the formats' fields, a one-element bits list, and split
\* fields with a part that has no operand_bits
CodecEncodings ==
    UNION {{f.fields[j] : j \in DOMAIN f.fields} : f \in {FmtR, FmtI, FmtS, FmtB, FmtU, FmtJ}}
    \cup {[name |-> "flag", type |-> "immediate", bits |-> <<30>>, parts |-> NoParts],
          Split("imm", "immediate", <<BarePart(20, 20), Part(31, 25, 7, 1)>>),
          Split("imm", "immediate", <<BarePart(12, 12)>>)}

\* an empty word, a full one and two patterns
CodecWords == {{}, 0..31, Word(43690, 21845), Word(4660, 22136)}

CodecValues == {0, 1, -1, 5, 31, 32, 2047, -2048, 4095, 699050, 1048575, -1398102}

InitCodec ==
    /\ lookup = <<>>
    /\ inst = NoInstance
    /\ call \in {[op |-> "init", encoding |-> e, word |-> w, value |-> v] :
                    e \in CodecEncodings, w \in CodecWords, v \in CodecValues}
    /\ result = [word |-> NoWord, value |-> -1]
    /\ trips = 0
    /\ entries = <<>>
    /\ history = <<>>
    /\ InitIdle

\* encode_instruction's placement of one field: _encode_parts for a split
\* field, _insert_bits for a contiguous one
insert_field(word, encoding, raw) ==
    IF encoding.parts # NoParts THEN encode_parts(word, raw, encoding)
    ELSE IF Len(encoding.bits) = 2
         THEN insert_bits(word, raw, encoding.bits[1], encoding.bits[2])
         ELSE insert_bits(word, raw, encoding.bits[1], encoding.bits[1])

\* insert the value, then extract the field
InsertExtract ==
    /\ call.op = "init"
    /\ call' = [call EXCEPT !.op = "insert_extract"]
    /\ result' = [word |-> insert_field(call.word, call.encoding, call.value),
                  value |-> extract_field_from_word(
                                insert_field(call.word, call.encoding, call.value),
                                call.encoding)]
    /\ UNCHANGED <<inst, trips, session>>

NextCodec == InsertExtract

SpecCodec == InitCodec /\ [][NextCodec]_vars

(***************************************************************************)
(* The claims.                                                             *)
(***************************************************************************)
Values == inst.operand_values

Held == Catalog[inst.instruction]

Has(n) == n \in DOMAIN Values

\* two's complement of width w of an unsigned value, stated arithmetically
Signed(v, w) == IF v >= 2 ^ (w - 1) THEN v - 2 ^ w ELSE v

\* the legal logical range of the imm operand of an instruction
LegalImm(instruction, v) ==
    CASE instruction.mnemonic \in {"slli", "srli", "srai"} -> 0 <= v /\ v <= 63
      [] instruction.mnemonic \in {"slliw", "srliw", "sraiw"} -> 0 <= v /\ v <= 31
      [] StartsWithCsr(instruction.mnemonic) -> 0 <= v /\ v <= 4095
      [] instruction.format.name \in {"I", "S"} -> -2048 <= v /\ v <= 2047
      [] instruction.format.name = "B" -> -4096 <= v /\ v <= 4094 /\ v % 2 = 0
      [] instruction.format.name = "J" -> -1048576 <= v /\ v <= 1048574 /\ v % 2 = 0
      [] instruction.format.name = "U" -> 0 <= v /\ v <= 1048575
      [] OTHER -> TRUE

LegalReg(v) == IsInt(v) /\ 0 <= v /\ v <= 31

\* the operand-value map is within the legal ranges
LegalValues(instruction, values) ==
    \A n \in DOMAIN values :
        CASE OperandType(instruction, n) = "register" -> LegalReg(values[n])
          [] OperandType(instruction, n) = "immediate" ->
                IsInt(values[n]) /\ LegalImm(instruction, values[n])
          [] OTHER -> TRUE

\* the operands of the map that encode_instruction wrote into the word
EncodedOperands(instruction, values) ==
    (DOMAIN values \cap OperandNames(instruction)) \ DOMAIN instruction.fixed_values

\* C1: decoding the word encode_instruction returned for an instruction and
\* a legal operand-value map yields that instruction and, on every operand
\* that was encoded, the values of the map.
C1_DecodeOfEncodeIsIdentity ==
    (call.op = "encode_instruction" /\ result.kind = "word" /\ LegalValues(Held, Values)) =>
        LET d == from_opc(lookup, result.word)
        IN /\ d # NoInstance
           /\ d.instruction = inst.instruction
           /\ \A n \in EncodedOperands(Held, Values) :
                 n \in DOMAIN d.operand_values /\ d.operand_values[n] = Values[n]

\* the word each documented example of assembly text stands for
ExpectedWord(text) ==
    CASE text.mnemonic = "addi" -> Word(65, 147)
      [] text.mnemonic = "sll" -> Word(82, 4531)
      [] text.mnemonic = "sd" -> Word(99, 46115)
      [] text.mnemonic = "beq" -> Word(32, 33379)
      [] text.mnemonic = "jal" -> Word(96, 239)
      [] OTHER -> Word(0, 115)

\* C2: for each documented (text, word) pair, from_asm(text).to_asm() is
\* text, from_asm(text).to_opc() is word and from_opc(word).to_asm() is text.
C2_AsmWordRoundTrip ==
    (call.op = "from_asm" /\ call.text \in CanonicalTexts) =>
        /\ result.kind = "instance"
        /\ to_asm(inst).err = NoErr /\ to_asm(inst).text = call.text
        /\ to_opc_errors(inst) = {} /\ to_opc_word(inst) = ExpectedWord(call.text)
        /\ LET d == from_opc(lookup, ExpectedWord(call.text))
           IN d # NoInstance /\ to_asm(d).err = NoErr /\ to_asm(d).text = call.text

LuiText == ListText("lui", <<XTok(2), <<"0", "x", "1", "2", "3", "4", "5">> >>)

\* C3: for an instance parsed from valid text, encode_instruction on its
\* instruction and operand values returns the word to_opc() returns.
C3_EncodeMatchesToOpc ==
    (call.op = "from_asm" /\ call.text \in CanonicalTexts \cup {LuiText}) =>
        /\ result.kind = "instance"
        /\ to_opc_errors(inst) = {}
        /\ encode_instruction(Held, Values).err = NoErr
        /\ encode_instruction(Held, Values).word = to_opc_word(inst)

\* the immediate a word carries, by the architectural layout of its format
ArchImm(fmt_name, w) ==
    CASE fmt_name = "I" -> Signed(extract_bits(w, 31, 20), 12)
      [] fmt_name = "S" -> Signed(extract_bits(w, 31, 25) * 32 + extract_bits(w, 11, 7), 12)
      [] fmt_name = "B" ->
            Signed(extract_bits(w, 31, 31) * 4096 + extract_bits(w, 7, 7) * 2048 +
                   extract_bits(w, 30, 25) * 32 + extract_bits(w, 11, 8) * 2, 13)
      [] fmt_name = "J" ->
            Signed(extract_bits(w, 31, 31) * 1048576 + extract_bits(w, 19, 12) * 4096 +
                   extract_bits(w, 20, 20) * 2048 + extract_bits(w, 30, 21) * 2, 21)
      [] OTHER -> extract_bits(w, 31, 12)

\* C4: a decoded imm is the sign extension of the encoded field for I and S
\* (12 bits), of the value assembled from the parts for B (13 bits) and J
\* (21 bits), with no multiplication after decoding, and the unsigned 20-bit
\* field for U; 0x00208263 is beq with imm 4, 0x02C0006F jal with imm 44,
\* 0xFFDFF06F jal with imm -4.
C4_DecodedImmediateSemantics ==
    (call.op = "from_opc" /\ inst # NoInstance) =>
        /\ Has("imm") => Values["imm"] = ArchImm(Held.format.name, WordMask32(call.word))
        /\ call.word = Word(32, 33379) => inst.instruction = "beq" /\ Values["imm"] = 4
        /\ call.word = Word(704, 111) => inst.instruction = "jal" /\ Values["imm"] = 44
        /\ call.word = Word(65503, 61551) => inst.instruction = "jal" /\ Values["imm"] = -4

\* the word beq rs1=1, rs2=2 / jal rd=0 is documented to encode to
BranchWord(imm) ==
    CASE imm = 4 -> Word(32, 33379)
      [] imm = -4 -> Word(65056, 36579)
      [] imm = -4096 -> Word(32800, 32867)
      [] OTHER -> Word(32288, 36835)

JumpWord(imm) ==
    CASE imm = 44 -> Word(704, 111)
      [] imm = -4 -> Word(65503, 61551)
      [] imm = -1048576 -> Word(32768, 111)
      [] OTHER -> Word(32767, 61551)

IsBeq12(i) ==
    /\ i.instruction = "beq" /\ DOMAIN i.operand_values = {"rs1", "rs2", "imm"}
    /\ i.operand_values["rs1"] = 1 /\ i.operand_values["rs2"] = 2

IsJal0(i) ==
    /\ i.instruction = "jal" /\ DOMAIN i.operand_values = {"rd", "imm"}
    /\ i.operand_values["rd"] = 0

\* C5: encode_instruction places B and J immediates as byte offsets at their
\* architectural positions: beq rs1=1, rs2=2 with imm 4, -4, -4096, 4094 and
\* jal rd=0 with imm 44, -4, -1048576, 1048574 give the documented words.
C5_BranchJumpPlacement ==
    call.op = "encode_instruction" =>
        /\ (IsBeq12(inst) /\ Values["imm"] \in {4, -4, -4096, 4094}) =>
              result.kind = "word" /\ result.word = BranchWord(Values["imm"])
        /\ (IsJal0(inst) /\ Values["imm"] \in {44, -4, -1048576, 1048574}) =>
              result.kind = "word" /\ result.word = JumpWord(Values["imm"])

C5_Witness ==
    /\ call.op = "encode_instruction" /\ IsBeq12(inst) /\ Values["imm"] = -4096
    /\ result.kind = "word" /\ result.word = Word(32800, 32867)

\* C6: every immediate from_opc decodes lies in the legal logical range of
\* its format: I and S -2048..2047, B -4096..4094 and even, J
\* -1048576..1048574 and even.
C6_DecodedImmediateInRange ==
    (call.op = "from_opc" /\ inst # NoInstance /\ Has("imm")) =>
        CASE Held.format.name \in {"I", "S"} -> -2048 <= Values["imm"] /\ Values["imm"] <= 2047
          [] Held.format.name = "B" ->
                -4096 <= Values["imm"] /\ Values["imm"] <= 4094 /\ Values["imm"] % 2 = 0
          [] Held.format.name = "J" ->
                /\ -1048576 <= Values["imm"] /\ Values["imm"] <= 1048574
                /\ Values["imm"] % 2 = 0
          [] OTHER -> TRUE

\* the register operands of the held map that encode_instruction reads
\* (a field pinned by fixed_values is encoded from the pinned value)
SuppliedRegisters ==
    {n \in DOMAIN Values :
        OperandType(Held, n) = "register" /\ n \notin DOMAIN Held.fixed_values}

BadRegisters == {n \in SuppliedRegisters : ~LegalReg(Values[n])}

\* the imm operand is one encode_instruction reads from the held map
SuppliedImm == Has("imm") /\ "imm" \notin DOMAIN Held.fixed_values

\* C7: encode_instruction enforces the logical range of a supplied integer
\* imm (the other operands being valid): a non-shift, non-CSR I-format
\* instruction and S format raise iff imm is outside -2048..2047; B accepts
\* -4096 and 4094 and rejects -4098 and 4096; J accepts -1048576 and 1048574
\* and rejects -1048578 and 1048576; a CSR instruction raises iff imm is
\* outside 0..4095.
C7_ImmediateRangeEnforced ==
    (/\ call.op = "encode_instruction"
     /\ SuppliedImm /\ IsInt(Values["imm"])
     /\ BadRegisters = {}) =>
        LET v == Values["imm"]
            raised == result.kind = "error" /\ result.word = NoWord
            encoded == result.kind = "word"
        IN CASE StartsWithCsr(Held.mnemonic) ->
                    /\ raised <=> ~(0 <= v /\ v <= 4095)
                    /\ encoded <=> (0 <= v /\ v <= 4095)
             [] Held.mnemonic \in DOMAIN ShiftShamtBits -> TRUE
             [] Held.format.name \in {"I", "S"} ->
                    /\ raised <=> ~(-2048 <= v /\ v <= 2047)
                    /\ encoded <=> (-2048 <= v /\ v <= 2047)
             [] Held.format.name = "B" ->
                    /\ v \in {-4096, 4094} => encoded
                    /\ v \in {-4098, 4096} => raised
                    /\ raised <=> ~(-4096 <= v /\ v <= 4094 /\ v % 2 = 0)
             [] Held.format.name = "J" ->
                    /\ v \in {-1048576, 1048574} => encoded
                    /\ v \in {-1048578, 1048576} => raised
                    /\ raised <=> ~(-1048576 <= v /\ v <= 1048574 /\ v % 2 = 0)
             [] OTHER -> TRUE

C7_Witness ==
    /\ call.op = "encode_instruction" /\ inst.instruction = "beq"
    /\ SuppliedImm /\ Values["imm"] = 4096 /\ BadRegisters = {}
    /\ result = Raised(Err("B-type immediate offset out of range", 4096))

\* C8: encoding a B-format or J-format instruction whose offset is odd fails
\* with an error and yields no word, through encode_instruction and through
\* to_opc, also after a caller rewrote operand_values["imm"] of a parsed
\* instance.
C8_OddOffsetRejected ==
    (/\ call.op \in {"encode_instruction", "to_opc"}
     /\ Held.format.name \in {"B", "J"}
     /\ Has("imm") /\ IsInt(Values["imm"]) /\ Values["imm"] % 2 = 1) =>
        /\ result.kind = "error"
        /\ result.word = NoWord
        /\ (BadRegisters = {} /\ LegalImm(Held, Values["imm"] - 1)
            /\ \A n \in DOMAIN Values : IsInt(Values[n])) =>
              result.err.val = Values["imm"]

C8_Witness ==
    /\ call.op = "to_opc" /\ inst.instruction = "beq"
    /\ Values = [rs1 |-> 1, rs2 |-> 2, imm |-> 9]
    /\ result = Raised(Err("B-type immediate offset not 2-byte aligned", 9))

\* C9: encode_instruction raises for a register operand it reads whose value
\* is not an int or is outside 0..31, the error naming the offending index,
\* and succeeds when every register is within 0..31 (0 and 31 included).
C9_RegisterIndexEnforced ==
    call.op = "encode_instruction" =>
        LET imm_ok == ~SuppliedImm \/ (IsInt(Values["imm"]) /\ LegalImm(Held, Values["imm"]))
        IN /\ BadRegisters # {} =>
                result.kind = "error" /\ result.word = NoWord
           /\ (BadRegisters # {} /\ imm_ok) =>
                \E n \in BadRegisters :
                    result.err = IF IsInt(Values[n])
                                 THEN Err("Register index out of range 0..31", Values[n])
                                 ELSE Err("Register operand must be int", 0)
           /\ (BadRegisters = {} /\ imm_ok) => result.kind = "word"

C9_Witness ==
    /\ call.op = "encode_instruction" /\ inst.instruction = "addi"
    /\ Values = [rd |-> 32, rs1 |-> 2, imm |-> 4]
    /\ result = Raised(Err("Register index out of range 0..31", 32))

\* the texts drawn that write register index n in one operand position
RegisterTexts(n) ==
    {ListText("addi", <<XTok(n), XTok(1), Str(4)>>),
     ListText("add", <<XTok(1), XTok(2), XTok(n)>>),
     ListText("sll", <<XTok(1), XTok(n), XTok(3)>>),
     OffsetBaseText("ld", <<XTok(n), Str(8), XTok(7)>>),
     OffsetBaseText("sd", <<XTok(6), Str(8), XTok(n)>>)}

\* C10: from_asm raises an error naming the index for a register token whose
\* index is outside 0..31 (x32, x33, x100), in comma-list and offset(base)
\* texts, and returns no instance; x0 and x31 parse.
C10_FromAsmRegisterRange ==
    call.op = "from_asm" =>
        \A n \in TextIndices :
            call.text \in RegisterTexts(n) =>
                IF n > 31
                THEN result.kind = "error" /\ result.err.val = n /\ inst = NoInstance
                ELSE result.kind = "instance" /\ inst # NoInstance

\* C11: to_opc validates register operands: when a register operand of the
\* held instance has been rewritten to 32 or -1, to_opc raises the
\* out-of-range error naming that index and returns no word.
C11_ToOpcValidatesRegisters ==
    (call.op = "to_opc" /\ \E n \in SuppliedRegisters : Values[n] \in {32, -1}) =>
        /\ result.kind = "error"
        /\ result.word = NoWord
        /\ \E n \in SuppliedRegisters :
              Values[n] \in {32, -1} /\ result.err.val = Values[n]

\* the value of bits [msb:lsb] of a word, bits above 31 playing no part
WordField(w, msb, lsb) == SumPow({b - lsb : b \in w \cap (lsb .. msb)})

\* the lookup keys from_opc is stated to probe for a word, in order
ProbedKeys(w) ==
    << <<WordField(w, 6, 0), WordField(w, 14, 12), WordField(w, 31, 25)>>,
       <<WordField(w, 6, 0), WordField(w, 14, 12), NoKey>>,
       <<WordField(w, 6, 0), NoKey, NoKey>> >>

\* C12: from_opc looks up (opcode, funct3, funct7), (opcode, funct3, absent)
\* and (opcode, absent, absent) of the word masked to 32 bits and returns the
\* instruction of the first key present; it returns None, and never raises,
\* exactly when none of the three keys is in the lookup table.
C12_FromOpcLookupOrder ==
    call.op = "from_opc" =>
        LET ks == ProbedKeys(call.word)
            present == {i \in 1 .. 3 : ks[i] \in DOMAIN lookup}
        IN /\ result.kind \in {"instance", "no_match"}
           /\ (inst = NoInstance) <=> (present = {})
           /\ (result.kind = "no_match") <=> (present = {})
           /\ \A i \in present :
                 (\A j \in present : i <= j) => inst.instruction = lookup[ks[i]]

\* a word wider than 32 bits whose only key present is (opcode, None, None)
C12_Witness ==
    /\ call.op = "from_opc" /\ call.word = Word(704, 111) \cup {32, 35}
    /\ ProbedKeys(call.word)[1] \notin DOMAIN lookup
    /\ ProbedKeys(call.word)[2] \notin DOMAIN lookup
    /\ inst.instruction = "jal" /\ Values["rd"] = 0

\* the word documented for each zero-operand mnemonic
ZeroOperandWord(m) ==
    CASE m = "ecall" -> Word(0, 115)
      [] m = "ebreak" -> Word(16, 115)
      [] OTHER -> Word(12320, 115)

\* C13: ecall, ebreak and mret are told apart: from_asm of each yields empty
\* operand_values, to_opc gives 0x00000073, 0x00100073 and 0x30200073, and
\* from_opc of each of those words returns the instruction of that mnemonic.
C13_ZeroOperandDistinguished ==
    (call.op = "from_asm" /\ call.text \in {BareText("ecall"), BareText("ebreak"), BareText("mret")}) =>
        /\ result.kind = "instance"
        /\ inst.instruction = call.text.mnemonic
        /\ DOMAIN Values = {}
        /\ to_opc_errors(inst) = {}
        /\ to_opc_word(inst) = ZeroOperandWord(call.text.mnemonic)
        /\ from_opc(lookup, ZeroOperandWord(call.text.mnemonic)).instruction = call.text.mnemonic

\* C14: for an F/D instruction of format R or R4 whose funct3 is not pinned
\* (fadd.s, word 0x00558553: rd 10, rs1 11, rs2 5), from_opc returns that
\* instruction, not None, and the decoded operand_values contain 'rm' equal
\* to bits [14:12] of the word.
C14_RoundingModeDecoded ==
    (call.op = "from_opc" /\ WordField(call.word, 6, 0) = 83
     /\ WordField(call.word, 31, 25) = 0) =>
        /\ inst # NoInstance
        /\ inst.instruction = "fadd.s"
        /\ Has("rm") /\ Values["rm"] = WordField(call.word, 14, 12)
        /\ call.word = Word(85, 34131) =>
              Values["rd"] = 10 /\ Values["rs1"] = 11 /\ Values["rs2"] = 5

\* the value a field is stated to be encoded from, Absent if none resolves
ResolvedValue(instruction, values, n) ==
    CASE n \in DOMAIN instruction.fixed_values -> instruction.fixed_values[n]
      [] n = "funct3" /\ instruction.extension \in {"F", "D"}
            /\ instruction.format.name \in {"R", "R4"} /\ "rm" \in DOMAIN values -> values["rm"]
      [] n \in DOMAIN values -> values[n]
      [] OTHER -> Absent

\* the fields whose bits in the word are their resolved value itself: every
\* field but an imm the caller supplied (whose bits follow the format's
\* immediate encoding)
PlainFields(instruction, values) ==
    {i \in DOMAIN instruction.format.fields :
        \/ instruction.format.fields[i].name # "imm"
        \/ ResolvedValue(instruction, values, "imm") = Absent
        \/ "imm" \in DOMAIN instruction.fixed_values}

\* the bits of a word that belong to a field
FieldBits(encoding) ==
    IF encoding.parts # NoParts
    THEN UNION {encoding.parts[i].bits[Len(encoding.parts[i].bits)] .. encoding.parts[i].bits[1] :
                   i \in DOMAIN encoding.parts}
    ELSE encoding.bits[Len(encoding.bits)] .. encoding.bits[1]

\* C15: encode_instruction resolves a field from fixed_values when the name
\* is there (overriding the caller's value of that name), else funct3 of a
\* rounding-mode instruction from operand_values['rm'] (else
\* operand_values['funct3']), else from operand_values[field]; a field with
\* no resolvable value is skipped: its bits stay zero and nothing is raised.
C15_FieldResolutionOrder ==
    (/\ call.op = "encode_instruction"
     /\ BadRegisters = {}
     /\ ~SuppliedImm \/ (IsInt(Values["imm"]) /\ LegalImm(Held, Values["imm"]))) =>
        /\ result.kind = "word"
        /\ \A i \in PlainFields(Held, Values) :
              LET encoding == Held.format.fields[i]
                  v == ResolvedValue(Held, Values, encoding.name)
              IN IF v = Absent
                 THEN result.word \cap FieldBits(encoding) = {}
                 ELSE WordField(result.word, encoding.bits[1], encoding.bits[2]) =
                         v % (2 ^ (encoding.bits[1] - encoding.bits[2] + 1))

\* fadd.s with both rm and funct3 supplied: the word carries rm
C15_Witness ==
    /\ call.op = "encode_instruction" /\ inst.instruction = "fadd.s"
    /\ Has("rm") /\ Values["rm"] = 5 /\ Has("funct3") /\ Values["funct3"] = 1
    /\ result.kind = "word" /\ WordField(result.word, 14, 12) = 5

\* the largest shift amount stated for a shift-immediate mnemonic
ShamtBound(m) == IF m \in {"slli", "srli", "srai"} THEN 63 ELSE 31

\* C16: for a shift-immediate mnemonic encode_instruction writes prefix OR
\* shamt into the 12-bit immediate field, prefix 0x400 for srai and sraiw and
\* 0 for slli, srli, slliw and srliw; it accepts shamt 0..63 for slli, srli
\* and srai and 0..31 for slliw, srliw and sraiw and otherwise raises an error
\* naming the upper-cased mnemonic and its bound; srai rd=1, rs1=2 with imm 1
\* gives 0x40115093 and with imm 63 gives 0x43F15093.
C16_ShiftImmediateEncoding ==
    (/\ call.op = "encode_instruction"
     /\ inst.instruction \in {"slli", "srli", "srai", "slliw", "srliw", "sraiw"}
     /\ SuppliedImm /\ IsInt(Values["imm"])
     /\ BadRegisters = {}) =>
        LET m == inst.instruction
            v == Values["imm"]
        IN IF 0 <= v /\ v <= ShamtBound(m)
           THEN /\ result.kind = "word"
                /\ WordField(result.word, 31, 20) =
                      (IF m \in {"srai", "sraiw"} THEN 1024 ELSE 0) + v
                /\ (m = "srai" /\ Values = [rd |-> 1, rs1 |-> 2, imm |-> 1]) =>
                      result.word = Word(16401, 20627)
                /\ (m = "srai" /\ Values = [rd |-> 1, rs1 |-> 2, imm |-> 63]) =>
                      result.word = Word(17393, 20627)
           ELSE /\ result.kind = "error" /\ result.word = NoWord
                /\ result.err.val = v
                /\ result.err.kind =
                      CASE m = "slli" -> "SLLI shift amount out of range 0..63"
                        [] m = "srli" -> "SRLI shift amount out of range 0..63"
                        [] m = "srai" -> "SRAI shift amount out of range 0..63"
                        [] m = "slliw" -> "SLLIW shift amount out of range 0..31"
                        [] m = "srliw" -> "SRLIW shift amount out of range 0..31"
                        [] OTHER -> "SRAIW shift amount out of range 0..31"

\* srai rd=1, rs1=2, imm=63 encoded to 0x43F15093
C16_Witness ==
    /\ call.op = "encode_instruction" /\ inst.instruction = "srai"
    /\ Values = [rd |-> 1, rs1 |-> 2, imm |-> 63]
    /\ result.kind = "word" /\ result.word = Word(17393, 20627)

FlwText == OffsetBaseText("flw", <<<<"f", "2">>, Str(4), XTok(3)>>)

FaddText == ListText("fadd.s", <<<<"f", "a", "0">>, <<"f", "a", "1">>, <<"f", "a", "0">> >>)

\* C17: assembly text uses the register namespace of each operand's bank:
\* from_asm of 'flw f2, 4(x3)' gives rd=2, rs1=3 and of 'fadd.s fa0, fa1, fa0'
\* gives rd=10, rs1=11, rs2=10, and to_asm renders a register operand with the
\* prefix of its bank (rd of flw with f, its base rs1 with x).
C17_BankRegisterNamespace ==
    /\ (call.op = "from_asm" /\ call.text = FlwText) =>
          /\ result.kind = "instance" /\ inst.instruction = "flw"
          /\ Has("rd") /\ Values["rd"] = 2 /\ Has("rs1") /\ Values["rs1"] = 3
    /\ (call.op = "from_asm" /\ call.text = FaddText) =>
          /\ result.kind = "instance" /\ inst.instruction = "fadd.s"
          /\ Has("rd") /\ Values["rd"] = 10 /\ Has("rs1") /\ Values["rs1"] = 11
          /\ Has("rs2") /\ Values["rs2"] = 10
    /\ (call.op = "to_asm" /\ inst.instruction = "flw" /\ result.kind = "text") =>
          /\ result.text.toks[1][1] = "f"
          /\ result.text.toks[3][1] = "x"

\* the template names of a format, in order
NamesOf(fmt) == [k \in DOMAIN fmt.asm_formats |-> fmt.asm_formats[k].name]

\* the position of the template to_asm is stated to select, 0 if the declared
\* name is not among the templates
SelectedTemplate(instruction) ==
    LET names == NamesOf(instruction.format)
        at(n) == IF \E k \in DOMAIN names : names[k] = n
                 THEN CHOOSE k \in DOMAIN names : names[k] = n ELSE 0
    IN IF instruction.asm_format # "" THEN at(instruction.asm_format)
       ELSE IF at("default") # 0 THEN at("default")
       ELSE IF at("standard") # 0 THEN at("standard")
       ELSE 1

\* an operand value as to_asm is stated to write it
Rendered(instruction, n, v) ==
    IF n \in {"rd", "rs1", "rs2"} THEN <<"x">> \o NatStr(v) ELSE NatStr(v)

\* C18: to_asm selects the template named by asm_format, or when that is
\* unset 'default', then 'standard', then the first template; it raises if
\* the declared name is not among the templates or if an operand the template
\* names has no value (0 counts as a value); a zero-operand template renders
\* the bare mnemonic and an offset_base template renders its last two
\* operands as offset(base) after the preceding operands.
C18_ToAsmTemplateSelection ==
    call.op = "to_asm" =>
        LET instruction == CustomDefs[inst.instruction]
            k == SelectedTemplate(instruction)
        IN IF k = 0 THEN result.kind = "error" /\ result.err.kind = "Unknown asm_format"
           ELSE LET tpl == instruction.format.asm_formats[k]
                    ops == tpl.operands
                IN IF \E j \in DOMAIN ops : ops[j] \notin DOMAIN Values
                   THEN result.kind = "error" /\ result.err.kind = "Missing operand value"
                   ELSE /\ result.kind = "text"
                        /\ result.text.mnemonic = instruction.mnemonic
                        /\ result.text.shape =
                              (IF ops = <<>> THEN "bare"
                               ELSE IF tpl.offset_base THEN "offset_base" ELSE "list")
                        /\ result.text.toks =
                              [j \in DOMAIN ops |-> Rendered(instruction, ops[j], Values[ops[j]])]

\* asm_format unset and a 'default' template in second place: rd 0, imm 5
C18_Witness ==
    /\ call.op = "to_asm" /\ inst.instruction = "unset_default"
    /\ Values = [rd |-> 0, rs1 |-> 5, imm |-> 5]
    /\ result.kind = "text" /\ result.text.shape = "list"
    /\ result.text.toks = << <<"x", "0">>, <<"5">> >>

\* a template fits a text: the bare mnemonic for no operands, else as many
\* operand tokens as the template names, written as offset(base) or as a list
TemplateFits(tpl, text) ==
    IF tpl.operands = <<>> THEN text.shape = "bare"
    ELSE /\ Len(text.toks) = Len(tpl.operands)
         /\ text.shape = (IF tpl.offset_base /\ Len(tpl.operands) >= 2
                          THEN "offset_base" ELSE "list")

\* the template from_asm is stated to parse a text with: the declared one if
\* it fits, else the first that fits; 0 if none fits
ParsedWith(instruction, text) ==
    LET tpls == instruction.format.asm_formats
        fits == {k \in DOMAIN tpls : TemplateFits(tpls[k], text)}
        declared == {k \in fits : tpls[k].name = instruction.asm_format}
    IN IF fits = {} THEN 0
       ELSE IF declared # {} THEN CHOOSE k \in declared : TRUE
       ELSE CHOOSE k \in fits : \A j \in fits : k <= j

CsrText == ListText("csrrw", <<XTok(1), <<"0", "x", "3", "0", "0">>, XTok(2)>>)

\* C19: from_asm takes the first token, case-insensitively, as the mnemonic;
\* it raises an unknown-mnemonic error when the catalog has no such
\* instruction, an invalid-immediate error when an immediate token is not an
\* integer literal (a base prefix allowed), and a parse error naming the
\* mnemonic and the original text when no template of the format matches; the
\* declared template is tried first and the first full match wins; in every
\* error case no instance is returned.
C19_FromAsmParsing ==
    call.op = "from_asm" =>
        /\ result.kind \in {"instance", "error"}
        /\ result.kind = "error" => inst = NoInstance
        /\ call.text.mnemonic \in {"ECALL", "Ecall", "EcAlL"} =>
              result.kind = "instance" /\ inst.instruction = "ecall"
        /\ call.text = CsrText =>
              result.kind = "instance" /\ Values = [rd |-> 1, imm |-> 768, rs1 |-> 2]
        /\ call.text = ListText("addi", <<XTok(1), XTok(2), <<"0", "b", "1", "0", "1">> >>) =>
              result.kind = "instance" /\ Values["imm"] = 5
        /\ call.text = ListText("addi", <<XTok(1), XTok(2), <<"1", "2", "a">> >>) =>
              result.kind = "error" /\ result.err.kind = "Invalid immediate"
        /\ IF MnemonicLower(call.text.mnemonic) \notin Mnemonics
           THEN result.kind = "error" /\ result.err.kind = "Unknown instruction mnemonic"
           ELSE LET m == MnemonicLower(call.text.mnemonic)
                    k == ParsedWith(Catalog[m], call.text)
                IN IF k = 0
                   THEN /\ result.kind = "error"
                        /\ result.err =
                              ErrText("Could not parse asm string for instruction " \o m, call.text)
                   ELSE LET ops == Catalog[m].format.asm_formats[k].operands
                            badimm == {j \in DOMAIN ops :
                                         /\ OperandType(Catalog[m], ops[j]) = "immediate"
                                         /\ ~parse_int0(call.text.toks[j]).ok}
                            badreg == {j \in DOMAIN ops :
                                         /\ OperandType(Catalog[m], ops[j]) = "register"
                                         /\ parse_register_token(call.text.toks[j]).err # NoErr}
                        IN /\ (badimm # {} /\ badreg = {}) =>
                                 result.kind = "error" /\ result.err.kind = "Invalid immediate"
                           /\ result.err.kind = "Invalid immediate" => badimm # {}
                           /\ (badimm = {} /\ badreg = {}) =>
                                 /\ result.kind = "instance" /\ inst.instruction = m
                                 /\ DOMAIN Values = {ops[j] : j \in DOMAIN ops}
                                 /\ \A j \in DOMAIN ops :
                                       OperandType(Catalog[m], ops[j]) = "immediate" =>
                                          Values[ops[j]] = parse_int0(call.text.toks[j]).v

\* 'ecall x1': no template of format I takes one operand, the error names
\* ecall and quotes the text
C19_Witness ==
    /\ call.op = "from_asm" /\ call.text = ListText("ecall", <<XTok(1)>>)
    /\ result = Raised(ErrText("Could not parse asm string for instruction ecall",
                               ListText("ecall", <<XTok(1)>>)))
    /\ inst = NoInstance

\* the index a set call is stated to address, -1 if none
AddressedIndex(reg) ==
    CASE reg \in {IntReg(8), StrReg(<<"f", "p">>), StrReg(<<"s", "0">>), StrReg(<<"x", "8">>)} -> 8
      [] reg = IntReg(1) -> 1
      [] OTHER -> -1

\* the latest of the set calls made that addressed i and satisfy P, 0 if none
LatestFor(i, P(_)) ==
    LET ks == {k \in DOMAIN history : AddressedIndex(history[k].reg) = i /\ P(history[k])}
    IN IF ks = {} THEN 0 ELSE CHOOSE k \in ks : \A j \in ks : j <= k

GaveAlias(c) == c.name.some /\ c.name.s # <<>>

GaveName(c) == c.name.some

GaveValue(c) == c.value # Absent

\* get_value, and get_name outside 0..31, as stated
ValuesAndRangeAsStated ==
    /\ \A i \in 0 .. 31 :
          get_value(entries, i) =
             (IF LatestFor(i, GaveValue) = 0 THEN Absent
              ELSE history[LatestFor(i, GaveValue)].value)
    /\ \A i \in {-1, 32, 33} : get_name(entries, i) = NoName

\* C20: after any sequence of RegisterContext.set calls, get_name(i) for i
\* in 0..31 is the most recent non-empty alias given for i (addressed by
\* index, by xN or by ABI name, 'fp' meaning 8), else the ABI name of i, and
\* get_value(i) is the most recent non-None value given for i, else None; a
\* set on i changes nothing of another j, a set whose register does not
\* resolve to 0..31 changes nothing, and get_name outside 0..31 is None.
C20_RegisterContextAsStated ==
    /\ ValuesAndRangeAsStated
    /\ \A i \in 0 .. 31 :
          get_name(entries, i) =
             (IF LatestFor(i, GaveAlias) = 0 THEN Name(GPR_ABI_NAMES[i + 1])
              ELSE history[LatestFor(i, GaveAlias)].name)

\* C20, amended: get_name(i) is the most recent alias given for i that was
\* not None when that alias is non-empty, else (no alias given, or the most
\* recent one is the empty string) the ABI name of i; the rest as stated.
C20_RegisterContextLatestName ==
    /\ ValuesAndRangeAsStated
    /\ \A i \in 0 .. 31 :
          get_name(entries, i) =
             (IF LatestFor(i, GaveName) = 0 \/ history[LatestFor(i, GaveName)].name.s = <<>>
              THEN Name(GPR_ABI_NAMES[i + 1])
              ELSE history[LatestFor(i, GaveName)].name)

\* x8 named by index, then renamed and given a value through 'fp', while
\* ra keeps its ABI name
C20_Witness ==
    /\ Len(history) = 2
    /\ history[1] = [reg |-> IntReg(8), name |-> Name(<<"g", "p", "1">>), value |-> 0]
    /\ history[2] = [reg |-> StrReg(<<"f", "p">>), name |-> Name(<<"a", "c", "c">>), value |-> 4660]
    /\ get_name(entries, 8) = Name(<<"a", "c", "c">>)
    /\ get_value(entries, 8) = 4660
    /\ get_name(entries, 1) = Name(<<"r", "a">>)

\* the 12-bit address a CSR key stands for: an int in 0..0xFFF, or a name of
\* the table the context was built with; -1 when it stands for none
KeyAddress(k) ==
    IF k.int THEN IF k.i \in 0..4095 THEN k.i ELSE -1
    ELSE IF csr_by_name # <<>> /\ k.s \in {"mstatus", "mepc", "cycle"}
         THEN CsrTable[k.s].address ELSE -1

\* the value of the last set call made for address a, Absent if there is none
LatestCsrValue(a) ==
    IF \E j \in 1..Len(history) : KeyAddress(history[j].key) = a
    THEN history[CHOOSE j \in 1..Len(history) :
                    /\ KeyAddress(history[j].key) = a
                    /\ \A l \in (j + 1)..Len(history) : KeyAddress(history[l].key) # a].value
    ELSE Absent

\* the keys read back: those set, and further addresses and names
CsrReadKeys == CsrKeys \cup {IntKey(0), IntKey(4095), IntKey(833), NameKey("mepc"), NameKey("cycle")}

\* C21: after any sequence of CSRContext.set calls, get_value(k) is the value
\* most recently set for the 12-bit address k resolves to (an int in 0..0xFFF,
\* or a name when a CSR table was supplied), so a value set by name is read
\* back by address and the other way round; keys that do not resolve are
\* ignored by set and read as None; get_address and get_name give None when
\* no table was supplied.
C21_CsrContextByAddress ==
    /\ \A k \in CsrReadKeys :
          csr_get_value(csr_by_name, csr_values, k) =
             (IF KeyAddress(k) = -1 THEN Absent ELSE LatestCsrValue(KeyAddress(k)))
    /\ DOMAIN csr_values = {KeyAddress(history[j].key) : j \in 1..Len(history)} \ {-1}
    /\ csr_by_name = <<>> =>
          /\ \A n \in {"mstatus", "mepc", "nosuch"} : csr_get_address(csr_by_name, n) = -1
          /\ \A a \in {768, 833, 4096 + 768} : csr_get_name(csr_by_name, a) = ""

C21_Witness ==
    /\ csr_by_name = CsrTable
    /\ Len(history) = 2
    /\ history[1] = [key |-> IntKey(768), value |-> 136]
    /\ history[2] = [key |-> NameKey("mstatus"), value |-> 4660]
    /\ csr_get_value(csr_by_name, csr_values, IntKey(768)) = 4660
    /\ csr_get_value(csr_by_name, csr_values, NameKey("mstatus")) = 4660

\* the imm of the instance masked to 12 bits, -1 when the instance has no imm
ImmAddress ==
    IF "imm" \notin DOMAIN inst.operand_values THEN -1
    ELSE IF inst.operand_values["imm"] < 0 THEN inst.operand_values["imm"] + 4096
    ELSE inst.operand_values["imm"]

\* the names of the ISA's CSRs at that address
IsaNamesAt(isa_csrs, a) == {n \in DOMAIN isa_csrs : isa_csrs[n].address = a}

\* what resolve_csr is to return for the call c on the current instance and
\* context
ResolveCsrExpected(c) ==
    IF ~c.has_csrs \/ ImmAddress = -1 \/ IsaNamesAt(c.isa_csrs, ImmAddress) = {}
    THEN [def |-> NoCSRDef, value |-> Absent]
    ELSE [def |-> c.isa_csrs[CHOOSE n \in IsaNamesAt(c.isa_csrs, ImmAddress) : TRUE],
          value |-> IF c.with_ctx THEN LatestCsrValue(ImmAddress) ELSE Absent]

\* C22: ISA.resolve_csr returns the CSRDef whose address is the instance's imm
\* masked to 12 bits (also for an imm decoded as negative) with the context's
\* value for that address, or with None when no context is passed; it returns
\* (None, None) when the ISA has no CSR table, the instance has no imm or no
\* CSR has that address; it never modifies the context.
C22_ResolveCsr ==
    [][call'.op = "resolve_csr" =>
          /\ result' = ResolveCsrExpected(call')
          /\ csr_values' = csr_values
          /\ csr_by_name' = csr_by_name
          /\ inst' = inst]_vars

C22_Witness ==
    /\ call.op = "resolve_csr"
    /\ call.with_ctx
    /\ inst.instruction = "csrrw"
    /\ inst.operand_values["imm"] = -1024
    /\ Len(history) = 2
    /\ result = [def |-> CSRDef("cycle", 3072), value |-> 4660]

IsFloat(d) == d.extension \in {"F", "D"}

IsFloatLoad(d) == in_group(d, <<"float", "load">>)

IsFloatStore(d) == in_group(d, <<"float", "store">>)

\* the role the classification rule gives operand n of definition d, a fixed
\* operand being left out of the sources when Pinned(n) holds
RuleRole(d, n, Pinned(_), rest_of_memory) ==
    IF ~IsRegisterOperand(d, n) THEN NoRole
    ELSE IF ~IsFloat(d) THEN Role(TRUE, n = "rd")
    ELSE IF IsFloatLoad(d) /\ n = "rd" THEN Role(FALSE, TRUE)
    ELSE IF IsFloatLoad(d) /\ n = "rs1" THEN Role(TRUE, FALSE)
    ELSE IF ~IsFloatLoad(d) /\ IsFloatStore(d) /\ n = "rs2" THEN Role(FALSE, FALSE)
    ELSE IF ~IsFloatLoad(d) /\ IsFloatStore(d) /\ n = "rs1" THEN Role(TRUE, FALSE)
    ELSE IF (IsFloatLoad(d) \/ IsFloatStore(d)) /\ ~rest_of_memory THEN NoRole
    ELSE IF n = "rd" THEN Role(rd_is_gpr(d.mnemonic), TRUE)
    ELSE IF n = "rs1" /\ rs1_is_gpr(d.mnemonic) THEN Role(TRUE, FALSE)
    ELSE IF Pinned(n) THEN NoRole
    ELSE Role(FALSE, FALSE)

\* the operands of d whose role under the rule is r, in operand order
RuleList(d, r, Pinned(_), rest_of_memory) ==
    SelectSeq(OperandSeq(d), LAMBDA n : RuleRole(d, n, Pinned, rest_of_memory) = r)

\* the four lists follow the rule
ListsFollow(Pinned(_), rest_of_memory) ==
    call.op = "classify" =>
       /\ result.gpr_source = RuleList(inst, Role(TRUE, FALSE), Pinned, rest_of_memory)
       /\ result.gpr_dest = RuleList(inst, Role(TRUE, TRUE), Pinned, rest_of_memory)
       /\ result.fpr_source = RuleList(inst, Role(FALSE, FALSE), Pinned, rest_of_memory)
       /\ result.fpr_dest = RuleList(inst, Role(FALSE, TRUE), Pinned, rest_of_memory)

PinnedAny(n) == n \in inst.fixed

PinnedRs2Rs3(n) == n \in inst.fixed /\ n \in {"rs2", "rs3"}

\* C23 as stated: outside F/D every register operand is GPR (rd the dest, the
\* others sources); for F/D, float loads have rd as FPR dest and rs1 as GPR
\* source, float stores rs2 as FPR source and rs1 as GPR source, compare /
\* classify / float-to-int / move-to-integer mnemonics rd as GPR dest,
\* int-to-float / move-from-integer mnemonics rs1 as GPR source, any operand
\* whose name is in fixed_values is left out of the sources, and all remaining
\* register operands are FPR (rd dest, others source).
C23_BankClassificationAsStated == ListsFollow(PinnedAny, TRUE)

\* C23: the same rule, where only a fixed rs2 or rs3 of an F/D instruction that
\* is neither a float load nor a float store is left out of the sources (a
\* fixed rs1 is classified like any rs1), and the register operands of a float
\* load other than rd and rs1, and of a float store other than rs2 and rs1,
\* are in no list.
C23_BankClassification == ListsFollow(PinnedRs2Rs3, FALSE)

\* fcvt.w.s with rs2 fixed: rd is the GPR dest, rs1 the only FPR source
C23_Witness ==
    /\ call.op = "classify"
    /\ inst.mnemonic = "fcvt.w.s"
    /\ inst.extension = "F"
    /\ inst.fixed = {"rs2"}
    /\ inst.groups = {<<"float", "arith">>}
    /\ OperandSeq(inst) = <<"rd", "rs1", "rs2">>
    /\ result.gpr_dest = <<"rd">>
    /\ result.fpr_source = <<"rs1">>
    /\ result.gpr_source = <<>>
    /\ result.fpr_dest = <<>>

\* the names in a list
Range(s) == {s[j] : j \in 1..Len(s)}

\* the four lists of the last classification, by bank
BankLists ==
    [gpr |-> {result.gpr_source, result.gpr_dest},
     fpr |-> {result.fpr_source, result.fpr_dest}]

AllLists == BankLists["gpr"] \cup BankLists["fpr"]

\* C29: for every instruction definition the lists gpr_source_operands,
\* gpr_dest_operands, fpr_source_operands and fpr_dest_operands are pairwise
\* disjoint and hold only register-typed operands, and operand_banks() has
\* exactly the operands of their union as keys, each mapped to "gpr" or "fpr"
\* as the list it is in.
C29_BankListsPartition ==
    call.op = "classify" =>
       /\ Range(result.gpr_source) \cap Range(result.gpr_dest) = {}
       /\ Range(result.gpr_source) \cap Range(result.fpr_source) = {}
       /\ Range(result.gpr_source) \cap Range(result.fpr_dest) = {}
       /\ Range(result.gpr_dest) \cap Range(result.fpr_source) = {}
       /\ Range(result.gpr_dest) \cap Range(result.fpr_dest) = {}
       /\ Range(result.fpr_source) \cap Range(result.fpr_dest) = {}
       /\ \A l \in AllLists : \A n \in Range(l) : IsRegisterOperand(inst, n)
       /\ DOMAIN result.banks = UNION {Range(l) : l \in AllLists}
       /\ \A b \in {"gpr", "fpr"} : \A l \in BankLists[b] : \A n \in Range(l) :
             result.banks[n] = b

\* fsw-like definition: rs1 in the GPR sources, rs2 in the FPR sources
C29_Witness ==
    /\ call.op = "classify"
    /\ inst.mnemonic = "fsw"
    /\ inst.extension = "F"
    /\ inst.groups = {<<"float", "store">>}
    /\ result.gpr_source = <<"rs1">>
    /\ result.fpr_source = <<"rs2">>
    /\ result.banks = [rs1 |-> "gpr", rs2 |-> "fpr"]

\* C24: the lazily cached GPR definition table behind get_gpr_def is filled at
\* most once: when two or more threads call get_gpr_def (or get_reset_value /
\* get_access without explicit definitions) before the cache is filled, the
\* loader runs only once and every caller observes the same table.
C24_GprTableLoadedOnce ==
    /\ loads <= 1
    /\ \A t1 \in Threads : \A t2 \in Threads :
          (threads[t1].seen # NotLoaded /\ threads[t2].seen # NotLoaded)
             => threads[t1].seen = threads[t2].seen

CodecOps == {"from_opc", "from_asm", "encode_instruction", "to_opc", "to_asm"}

\* what a call returns or raises, as a Result
Returned(r, kind) ==
    IF r.err # NoErr THEN Raised(r.err)
    ELSE Result(kind, IF kind = "word" THEN r.word ELSE NoWord,
                IF kind = "text" THEN r.text ELSE NoText, NoErr)

BitRange(bits) ==
    IF Len(bits) = 2 THEN Min(bits[1], bits[2])..(Min(bits[1], bits[2]) + Abs(bits[1] - bits[2]))
    ELSE {bits[1]}

\* the word bits an encoding occupies
WordBitsOf(encoding) ==
    IF encoding.parts # NoParts
    THEN UNION {BitRange(encoding.parts[j].bits) : j \in DOMAIN encoding.parts}
    ELSE BitRange(encoding.bits)

\* the bits of the logical value an encoding covers: those of the parts'
\* operand ranges (bit 0 for a part without one), the low width bits of a
\* contiguous field
LogicalBitsOf(encoding) ==
    IF encoding.parts # NoParts
    THEN UNION {IF encoding.parts[j].operand_bits = <<>> THEN {0}
                ELSE BitRange(encoding.parts[j].operand_bits) : j \in DOMAIN encoding.parts}
    ELSE 0..(Cardinality(BitRange(encoding.bits)) - 1)

\* v restricted to the bits in S, as an unsigned integer
Restricted(v, S) == SumPow({b \in S : BitOf(v, b) = 1})

\* C26: for every field encoding (a contiguous range, or an ordered list of
\* parts each with a word bit range and a logical-value bit range) and every
\* raw value v, extracting the field from a word into which v was inserted
\* returns v restricted to the logical bits the encoding covers (v mod 2^width
\* for a contiguous field), whatever the word held in that window before, and
\* insertion leaves every word bit outside the field's bit ranges unchanged.
C26_FieldCodecInverse ==
    call.op = "insert_extract" =>
       /\ result.value = Restricted(call.value, LogicalBitsOf(call.encoding))
       /\ call.encoding.parts = NoParts =>
             result.value = call.value % (2 ^ Cardinality(BitRange(call.encoding.bits)))
       /\ result.word \ WordBitsOf(call.encoding) = call.word \ WordBitsOf(call.encoding)

\* a negative value put into the split immediate of format B over a full word
C26_Witness ==
    /\ call.op = "insert_extract"
    /\ call.encoding = FieldByName([format |-> FmtB], "imm")
    /\ call.word = 0..31
    /\ call.value = -1398102
    /\ result.value = Restricted(-1398102, 1..12)
    /\ result.value # 0
    /\ result.word # 0..31

\* C27: every 32-bit word that from_opc decodes to instruction X agrees with
\* all of X's fixed_values, also with fixed fields other than opcode, funct3
\* and funct7 (a fixed imm, a fixed rs2): extracting each fixed field from the
\* word yields X's fixed value.
C27_DecodeAgreesWithFixedValues ==
    (call.op = "from_opc" /\ inst # NoInstance) =>
        \A n \in DOMAIN Held.fixed_values \cap FieldNames(Held) :
           extract_field_from_word(WordMask32(call.word), FieldByName(Held, n))
              = Held.fixed_values[n]

\* C28: for every 32-bit word w that from_opc decodes, from_opc(w).to_opc()
\* is w: packing the decoded instance reproduces the word bit for bit and
\* does not raise.
C28_ReencodeFidelity ==
    (call.op = "from_opc" /\ inst # NoInstance) =>
        /\ to_opc_errors(inst) = {}
        /\ to_opc_word(inst) = WordMask32(call.word)

\* C30: encode_instruction never rejects a U-format immediate: any integer
\* imm is encoded as imm mod 2^20 in the format's immediate field, so values
\* below 0 or at least 2^20 wrap silently, and from_opc of the result returns
\* the unsigned 20-bit value (equal to imm only when 0 <= imm < 2^20).
C30_UImmediateWraps ==
    (/\ call.op = "encode_instruction"
     /\ Held.format.name = "U"
     /\ Has("imm") /\ IsInt(Values["imm"])
     /\ BadRegisters = {}) =>
        /\ result.kind = "word"
        /\ extract_bits(result.word, 31, 12) = Values["imm"] % 1048576
        /\ from_opc(lookup, result.word) # NoInstance
        /\ from_opc(lookup, result.word).operand_values["imm"] = Values["imm"] % 1048576
        /\ (from_opc(lookup, result.word).operand_values["imm"] = Values["imm"])
              <=> (0 <= Values["imm"] /\ Values["imm"] < 1048576)

\* lui with imm -1: accepted, bits [31:12] all set, decoded as 2^20 - 1
C30_Witness ==
    /\ call.op = "encode_instruction"
    /\ inst.instruction = "lui"
    /\ Has("imm") /\ Values["imm"] = -1
    /\ result.kind = "word"
    /\ 12..31 \subseteq result.word
    /\ from_opc(lookup, result.word).operand_values["imm"] = 1048575

====
